---- MODULE Spec2Model ----
(***************************************************************************)
(* Memory embedding and relationship graph engine of mini_me:              *)
(* backend/app/services/memory_service.py (MemoryService) and              *)
(* backend/app/services/embedding_service.py (EmbeddingService), with the  *)
(* tables of backend/core/models/memory.py.                                *)
(*                                                                         *)
(* Scores are cosine similarities scaled by 100 (0.7 is 70, 1.0 is 100).   *)
(* Embeddings are integer vectors with integer norms, so that every score  *)
(* of the model is exact.  A Python None embedding (SQL NULL) is the empty *)
(* tuple.                                                                  *)
(***************************************************************************)
EXTENDS Integers, Sequences, FiniteSets, Bags, TLC

\* ---------------------------------------------------------------- bounds
MaxMem == 3
MaxBatch == 2
FanMaxMem == 12
MaxCand == 3
MaxTexts == 3
MaxRows == 3
MaxLimit == 2
MaxTopK == 2
MaxClusters == 2

Procs == {1, 2}
Owners == {1, 2}

\* ------------------------------------------------------ program constants
SimilarityThreshold == 70
TopK == 10
DefaultSearchThreshold == 50
DefaultKeywordWeight == 3
DefaultSemanticWeight == 7
DefaultNClusters == 5
NameSample == 5

\* ------------------------------------------------------------ the encoder
None == << >>
ZeroVector == <<0, 0>>
Texts == {"", "x", "y"}

\* not text or not text.strip(): the empty text and the text of whitespace only.
IsBlank(text) == text \in {"", " "}

\* SentenceTransformer.encode: a fixed table of the external model.
ModelEncode(text) ==
  CASE text = "x" -> <<5, 0>>
    [] text = "y" -> <<4, 3>>
    [] text = "z" -> <<3, 4>>
    [] OTHER -> <<0, 5>>

CreateEmbedding(text) ==
  IF IsBlank(text) THEN ZeroVector ELSE ModelEncode(text)

\* ------------------------------------------------------ SimilarityEngine
RECURSIVE DotFrom(_, _, _)
DotFrom(a, b, i) ==
  IF i > Len(a) THEN 0 ELSE a[i] * b[i] + DotFrom(a, b, i + 1)

Dot(a, b) == DotFrom(a, b, 1)

\* Euclidean norm; the vectors of the model have integer norms.
Norm(a) == LET d == Dot(a, a) IN CHOOSE n \in 0..d : n * n = d

\* sklearn cosine_similarity: rows are normalised (a zero row stays zero),
\* then multiplied.
CosineSimilarity(a, b) ==
  LET na == Norm(a)
      nb == Norm(b)
  IN IF na = 0 \/ nb = 0 THEN 0 ELSE (100 * Dot(a, b)) \div (na * nb)

Truthy(embedding) == Len(embedding) > 0

\* sklearn cosine_similarity checks its two matrices first and raises
\* ValueError("Incompatible dimension for X and Y matrices") when the rows
\* have different lengths.
IncompatibleDimension(a, b) == Len(a) # Len(b)

\* calculate_similarity without its clamp.
CalculateSimilarityUnclamped(embedding1, embedding2) ==
  IF ~Truthy(embedding1) \/ ~Truthy(embedding2) THEN 0
  ELSE CosineSimilarity(embedding1, embedding2)

\* calculate_similarity: 0.0 for an empty or None embedding, otherwise the
\* cosine clamped into [0, 1].
CalculateSimilarity(embedding1, embedding2) ==
  IF ~Truthy(embedding1) \/ ~Truthy(embedding2) THEN 0
  ELSE LET similarity == CosineSimilarity(embedding1, embedding2)
       IN IF similarity > 100 THEN 100 ELSE IF similarity < 0 THEN 0 ELSE similarity

\* list.sort(key=score, reverse=True) is stable: x goes after every element
\* whose score is at least its own.
RECURSIVE InsertByScore(_, _)
InsertByScore(x, sorted) ==
  IF sorted = << >> THEN <<x>>
  ELSE IF Head(sorted)[2] >= x[2]
       THEN <<Head(sorted)>> \o InsertByScore(x, Tail(sorted))
       ELSE <<x>> \o sorted

RECURSIVE SortByScore(_, _)
SortByScore(pairs, n) ==
  IF n = 0 THEN << >> ELSE InsertByScore(pairs[n], SortByScore(pairs, n - 1))

\* The candidates with the threshold test left out.
RECURSIVE SimilaritiesUnfiltered(_, _, _)
SimilaritiesUnfiltered(query, embeddings, threshold) ==
  IF embeddings = << >> THEN << >>
  ELSE LET id == Head(embeddings)[1]
           emb == Head(embeddings)[2]
           rest == SimilaritiesUnfiltered(query, Tail(embeddings), threshold)
       IN IF Truthy(emb)
          THEN <<<<id, CosineSimilarity(query, emb)>>>> \o rest
          ELSE rest

\* The candidates with the threshold test turned round.
RECURSIVE SimilaritiesAtMost(_, _, _)
SimilaritiesAtMost(query, embeddings, threshold) ==
  IF embeddings = << >> THEN << >>
  ELSE LET id == Head(embeddings)[1]
           emb == Head(embeddings)[2]
           rest == SimilaritiesAtMost(query, Tail(embeddings), threshold)
           similarity == CosineSimilarity(query, emb)
       IN IF Truthy(emb) /\ similarity <= threshold
          THEN <<<<id, similarity>>>> \o rest
          ELSE rest

\* The candidates, in input order, that have an embedding and score at least
\* the threshold, as (id, score) pairs.
RECURSIVE Similarities(_, _, _)
Similarities(query, embeddings, threshold) ==
  IF embeddings = << >> THEN << >>
  ELSE LET id == Head(embeddings)[1]
           emb == Head(embeddings)[2]
           rest == Similarities(query, Tail(embeddings), threshold)
           similarity == CosineSimilarity(query, emb)
       IN IF Truthy(emb) /\ similarity >= threshold
          THEN <<<<id, similarity>>>> \o rest
          ELSE rest

\* similarities[:k] of Python, k any integer.
Prefix(s, k) ==
  IF k >= 0 THEN SubSeq(s, 1, IF k < Len(s) THEN k ELSE Len(s))
  ELSE SubSeq(s, 1, IF Len(s) + k > 0 THEN Len(s) + k ELSE 0)

\* top_k is << >> for None and <<k>> for an integer k.
FindSimilarEmbeddings(query, embeddings, threshold, top_k) ==
  IF ~Truthy(query) \/ embeddings = << >> THEN << >>
  ELSE LET sims == Similarities(query, embeddings, threshold)
           sorted == SortByScore(sims, Len(sims))
       IN IF top_k # << >> /\ top_k[1] # 0
          THEN Prefix(sorted, top_k[1])
          ELSE sorted

RECURSIVE DropId(_, _)
DropId(embeddings, id) ==
  IF embeddings = << >> THEN << >>
  ELSE IF Head(embeddings)[1] # id
       THEN <<Head(embeddings)>> \o DropId(Tail(embeddings), id)
       ELSE DropId(Tail(embeddings), id)

\* update_memory_relationships with the cut one short.
UpdateMemoryRelationshipsShort(memory_id, memory_embedding, all_embeddings, threshold) ==
  FindSimilarEmbeddings(memory_embedding, DropId(all_embeddings, memory_id),
                        threshold, <<TopK - 1>>)

\* update_memory_relationships without the top_k argument.
UpdateMemoryRelationshipsUncut(memory_id, memory_embedding, all_embeddings, threshold) ==
  FindSimilarEmbeddings(memory_embedding, DropId(all_embeddings, memory_id),
                        threshold, << >>)

UpdateMemoryRelationships(memory_id, memory_embedding, all_embeddings, threshold) ==
  FindSimilarEmbeddings(memory_embedding, DropId(all_embeddings, memory_id),
                        threshold, <<TopK>>)

\* create_batch_embeddings: the model is called on the non-blank texts only and
\* its outputs are put back at their positions.
ValidTexts(texts) == SelectSeq(texts, LAMBDA t : ~IsBlank(t))

ModelEncodeBatch(valid_texts) ==
  [j \in 1..Len(valid_texts) |-> ModelEncode(valid_texts[j])]

\* valid_idx never advanced: every text gets the first output of the model.
ValidBeforeStuck(texts, i) == 0

\* valid_idx when the loop reaches position i.
ValidBefore(texts, i) == Len(ValidTexts(SubSeq(texts, 1, i - 1)))

\* create_batch_embeddings that leaves a blank text without a vector.
CreateBatchEmbeddingsBlankNone(texts) ==
  IF texts = << >> THEN << >>
  ELSE IF ValidTexts(texts) = << >> THEN [i \in 1..Len(texts) |-> None]
  ELSE LET embeddings == ModelEncodeBatch(ValidTexts(texts))
       IN [i \in 1..Len(texts) |->
             IF ~IsBlank(texts[i]) THEN embeddings[ValidBefore(texts, i) + 1]
             ELSE None]

CreateBatchEmbeddings(texts) ==
  IF texts = << >> THEN << >>
  ELSE IF ValidTexts(texts) = << >> THEN [i \in 1..Len(texts) |-> ZeroVector]
  ELSE LET embeddings == ModelEncodeBatch(ValidTexts(texts))
       IN [i \in 1..Len(texts) |->
             IF ~IsBlank(texts[i]) THEN embeddings[ValidBefore(texts, i) + 1]
             ELSE ZeroVector]

\* create_memory_embedding for a call that passes no metadata: the enhanced
\* text is the content alone.
CreateMemoryEmbedding(content) == CreateEmbedding(content)

\* ------------------------------------------------------------------ state
VARIABLES
  memories,    \* table memories: id -> [owner, content, emb]
  relations,   \* table memory_relations: the bag of its committed rows
  nextMemId,   \* the next fresh Memory.id
  pc,          \* where each call is
  ctx,         \* the locals and the session of each running call
  ret          \* what the last step handed back to a caller, if anything

vars == <<memories, relations, nextMemId, pc, ctx, ret>>

NoCall ==
  [op |-> "none", owner |-> 0, mem |-> 0, emb |-> None, batch |-> << >>,
   embs |-> << >>, bi |-> 0, scanned |-> << >>, rels |-> << >>, ri |-> 0,
   pending |-> << >>, pre |-> {}]

NoReturn == [p |-> 0, op |-> "none", outcome |-> "none", value |-> 0, err |-> ""]

Returned(p, op, value) ==
  [p |-> p, op |-> op, outcome |-> "returned", value |-> value, err |-> ""]

Raised(p, op, err) ==
  [p |-> p, op |-> op, outcome |-> "raised", value |-> 0, err |-> err]

Init ==
  /\ memories = << >>
  /\ relations = EmptyBag
  /\ nextMemId = 1
  /\ pc = [p \in Procs |-> "idle"]
  /\ ctx = [p \in Procs |-> NoCall]
  /\ ret = NoReturn

MemoryIds == DOMAIN memories

Embedded(o) == {m \in MemoryIds : memories[m].owner = o /\ memories[m].emb # None}

Unembedded(o) == {m \in MemoryIds : memories[m].owner = o /\ memories[m].emb = None}

RECURSIVE Asc(_)
Asc(S) ==
  IF S = {} THEN << >>
  ELSE LET m == CHOOSE x \in S : \A y \in S : x <= y
       IN <<m>> \o Asc(S \ {m})

Min(a, b) == IF a < b THEN a ELSE b

\* A SELECT without ORDER BY returns its rows in an unspecified order.  The
\* orders enumerated put any TopK of the rows first: every result the top-K
\* cut can have under some row order is the result under one of these.
ScanOrders(S) ==
  {Asc(T) \o Asc(S \ T) :
     T \in {U \in SUBSET S : Cardinality(U) = Min(Cardinality(S), TopK)}}

\* The corpus query without its user_id condition.
OtherMemoriesAnyOwner(o, id) ==
  {m \in MemoryIds : memories[m].emb # None /\ m # id}

\* The corpus query without its embedding != None condition.
OtherMemoriesAnyEmbedding(o, id) ==
  {m \in MemoryIds : memories[m].owner = o /\ m # id}

\* The corpus query without its id != memory.id condition.
OtherMemoriesWithSelf(o, id) == Embedded(o)

\* The corpus query when a call commits its memory only as it returns: the
\* memories of calls that are still running are not seen.
OtherMemoriesOfReturnedCalls(o, id) ==
  {m \in Embedded(o) : m # id /\ ~\E p \in Procs : pc[p] # "idle" /\ ctx[p].mem = m}

\* select(Memory).where(user_id == memory.user_id, id != memory.id,
\*                      embedding != None)
OtherMemories(o, id) == {m \in Embedded(o) : m # id}

\* The (related_id, strength) list of one pass over the rows read in `order`.
Relationships(id, emb, order) ==
  UpdateMemoryRelationships(
    id, emb, [i \in 1..Len(order) |-> <<order[i], memories[order[i]].emb>>],
    SimilarityThreshold)

Joins(r, a, b) == (r.src = a /\ r.dst = b) \/ (r.src = b /\ r.dst = a)

\* The number of committed rows between a and b, in either direction.
RowsBetween(a, b) ==
  LET hit == {r \in BagToSet(relations) : Joins(r, a, b)}
  IN BagCardinality([r \in hit |-> relations[r]])

\* The existence query with the reverse direction forgotten.
ExistingOneWay(pending, a, b) ==
  LET hit == {r \in BagToSet(relations) : r.src = a /\ r.dst = b}
  IN BagCardinality([r \in hit |-> relations[r]])
       + Len(SelectSeq(pending, LAMBDA r : r.src = a /\ r.dst = b))

\* The rows the existence query of a session returns: the committed ones and
\* the ones the session has added itself.
Existing(pending, a, b) ==
  RowsBetween(a, b) + Len(SelectSeq(pending, LAMBDA r : Joins(r, a, b)))

RECURSIVE SeqToBag(_)
SeqToBag(rows) ==
  IF rows = << >> THEN EmptyBag ELSE SetToBag({Head(rows)}) (+) SeqToBag(Tail(rows))

\* --------------------------------------------------------------- actions
\* POST /chat of api/chat.py stores the message as a Memory without an
\* embedding and without relationship maintenance.
AddUnembedded(o, content) ==
  /\ memories' = memories @@ (nextMemId :> [owner |-> o, content |-> content, emb |-> None])
  /\ nextMemId' = nextMemId + 1
  /\ ret' = NoReturn
  /\ UNCHANGED <<relations, pc, ctx>>

\* store_memory up to its first commit.  The encoder call is not guarded: when
\* it raises, the exception leaves store_memory before the Memory is built.
StoreCall(p, o, content, encoder_ok) ==
  /\ pc[p] = "idle"
  /\ IF ~encoder_ok
     THEN /\ ret' = Raised(p, "store", "EncoderError")
          /\ UNCHANGED <<memories, relations, nextMemId, pc, ctx>>
     ELSE LET embedding == CreateMemoryEmbedding(content)
          IN /\ memories' = memories @@
                  (nextMemId :> [owner |-> o, content |-> content, emb |-> embedding])
             /\ nextMemId' = nextMemId + 1
             /\ pc' = [pc EXCEPT ![p] = "scan"]
             /\ ctx' = [ctx EXCEPT ![p] =
                          [NoCall EXCEPT !.op = "store", !.owner = o, !.mem = nextMemId,
                                         !.emb = embedding, !.pre = Embedded(o)]]
             /\ ret' = NoReturn
             /\ UNCHANGED relations

\* Where a call goes when the pass for its current memory is over: store_memory
\* returns the memory, update_embeddings_batch takes the next memory of its
\* batch or returns len(memories).
AfterPass(p, c) ==
  IF c.op = "backfill" /\ c.bi < Len(c.batch)
  THEN /\ pc' = [pc EXCEPT ![p] = "scan"]
       /\ ctx' = [ctx EXCEPT ![p] =
                    [c EXCEPT !.bi = c.bi + 1, !.mem = c.batch[c.bi + 1],
                              !.emb = c.embs[c.bi + 1], !.scanned = << >>,
                              !.rels = << >>, !.ri = 0]]
       /\ ret' = NoReturn
  ELSE /\ pc' = [pc EXCEPT ![p] = "idle"]
       /\ ctx' = [ctx EXCEPT ![p] = NoCall]
       /\ ret' = Returned(p, c.op, IF c.op = "backfill" THEN Len(c.batch) ELSE c.mem)

\* _update_memory_relationships up to the similarity computation: the guard on
\* the memory's embedding, the corpus query and the ranking.  The loop of
\* find_similar_embeddings compares the memory with every row of the corpus
\* that has a vector; one of another dimension makes cosine_similarity raise, and nothing
\* between it and the caller of store_memory catches the exception.
Scan(p) ==
  /\ pc[p] = "scan"
  /\ UNCHANGED <<memories, relations, nextMemId>>
  /\ LET c == ctx[p]
     IN IF ~Truthy(c.emb)
        THEN AfterPass(p, c)
        ELSE IF \E m \in OtherMemories(c.owner, c.mem) :
                  Truthy(memories[m].emb) /\ IncompatibleDimension(c.emb, memories[m].emb)
        THEN /\ pc' = [pc EXCEPT ![p] = "idle"]
             /\ ctx' = [ctx EXCEPT ![p] = NoCall]
             /\ ret' = Raised(p, c.op, "ValueError")
        ELSE \E order \in ScanOrders(OtherMemories(c.owner, c.mem)) :
               LET relationships == Relationships(c.mem, c.emb, order)
               IN /\ pc' = [pc EXCEPT ![p] =
                              IF relationships = << >> THEN "commit" ELSE "check"]
                  /\ ctx' = [ctx EXCEPT ![p] =
                               [c EXCEPT !.scanned = order, !.rels = relationships,
                                         !.ri = 1, !.pending = << >>]]
                  /\ ret' = NoReturn

\* One turn of the loop over relationships: the existence query in both
\* directions, scalar_one_or_none on its rows, and db.add of the new row.
CheckAdd(p) ==
  /\ pc[p] = "check"
  /\ UNCHANGED <<memories, relations, nextMemId>>
  /\ LET c == ctx[p]
         related_id == c.rels[c.ri][1]
         strength == c.rels[c.ri][2]
         existing == Existing(c.pending, c.mem, related_id)
     IN IF existing > 1
        THEN /\ pc' = [pc EXCEPT ![p] = "idle"]
             /\ ctx' = [ctx EXCEPT ![p] = NoCall]
             /\ ret' = Raised(p, c.op, "MultipleResultsFound")
        ELSE /\ pc' = [pc EXCEPT ![p] = IF c.ri = Len(c.rels) THEN "commit" ELSE "check"]
             /\ ctx' = [ctx EXCEPT ![p] =
                          [c EXCEPT !.ri = c.ri + 1,
                                    !.pending =
                                      IF existing = 0
                                      THEN Append(c.pending,
                                             [src |-> c.mem, dst |-> related_id,
                                              type |-> "similar_content",
                                              strength |-> strength])
                                      ELSE c.pending]]
             /\ ret' = NoReturn

\* The pass ends without its commit: the session is closed with the rows it
\* added still pending.
CommitMissing(p) ==
  /\ pc[p] = "commit"
  /\ relations' = relations
  /\ AfterPass(p, [ctx[p] EXCEPT !.pending = << >>])
  /\ UNCHANGED <<memories, nextMemId>>

\* The pass ends by rewriting the row of every pair it has met: the rows that
\* exist for the pair are replaced by one from its memory with the new score.
CommitRewriting(p) ==
  /\ pc[p] = "commit"
  /\ LET c == ctx[p]
         met == {c.rels[i][1] : i \in 1..Len(c.rels)}
         kept == {r \in BagToSet(relations) : ~\E d \in met : Joins(r, c.mem, d)}
         fresh == [i \in 1..Len(c.rels) |->
                     [src |-> c.mem, dst |-> c.rels[i][1],
                      type |-> "similar_content", strength |-> c.rels[i][2]]]
     IN relations' = [r \in kept |-> relations[r]] (+) SeqToBag(fresh)
  /\ AfterPass(p, [ctx[p] EXCEPT !.pending = << >>])
  /\ UNCHANGED <<memories, nextMemId>>

\* The commit that ends _update_memory_relationships.
Commit(p) ==
  /\ pc[p] = "commit"
  /\ relations' = relations (+) SeqToBag(ctx[p].pending)
  /\ AfterPass(p, [ctx[p] EXCEPT !.pending = << >>])
  /\ UNCHANGED <<memories, nextMemId>>

\* update_embeddings_batch with the LIMIT of its query left out.
BackfillCallUnlimited(p, o, batch_size, chosen) ==
  /\ pc[p] = "idle"
  /\ chosen = Unembedded(o)
  /\ IF chosen = {}
     THEN /\ ret' = Returned(p, "backfill", 0)
          /\ UNCHANGED <<pc, ctx>>
     ELSE /\ pc' = [pc EXCEPT ![p] = "embed"]
          /\ ctx' = [ctx EXCEPT ![p] =
                       [NoCall EXCEPT !.op = "backfill", !.owner = o, !.batch = Asc(chosen)]]
          /\ ret' = NoReturn
  /\ UNCHANGED <<memories, relations, nextMemId>>

\* update_embeddings_batch: the query for the memories without an embedding.
\* Which rows a LIMIT keeps is unspecified.
BackfillCall(p, o, batch_size, chosen) ==
  /\ pc[p] = "idle"
  /\ chosen \subseteq Unembedded(o)
  /\ Cardinality(chosen) = Min(batch_size, Cardinality(Unembedded(o)))
  /\ IF chosen = {}
     THEN /\ ret' = Returned(p, "backfill", 0)
          /\ UNCHANGED <<pc, ctx>>
     ELSE /\ pc' = [pc EXCEPT ![p] = "embed"]
          /\ ctx' = [ctx EXCEPT ![p] =
                       [NoCall EXCEPT !.op = "backfill", !.owner = o, !.batch = Asc(chosen)]]
          /\ ret' = NoReturn
  /\ UNCHANGED <<memories, relations, nextMemId>>

\* update_embeddings_batch: the batch is encoded, the embeddings are assigned
\* and committed.
BackfillEmbed(p, encoder_ok) ==
  /\ pc[p] = "embed"
  /\ LET c == ctx[p]
         contents == [i \in 1..Len(c.batch) |-> memories[c.batch[i]].content]
         embeddings == CreateBatchEmbeddings(contents)
         Index(m) == CHOOSE i \in 1..Len(c.batch) : c.batch[i] = m
     IN IF ~encoder_ok
        THEN /\ pc' = [pc EXCEPT ![p] = "idle"]
             /\ ctx' = [ctx EXCEPT ![p] = NoCall]
             /\ ret' = Raised(p, "backfill", "EncoderError")
             /\ UNCHANGED memories
        ELSE /\ memories' =
                  [m \in MemoryIds |->
                     IF \E i \in 1..Len(c.batch) : c.batch[i] = m
                     THEN [memories[m] EXCEPT !.emb = embeddings[Index(m)]]
                     ELSE memories[m]]
             /\ pc' = [pc EXCEPT ![p] = "scan"]
             /\ ctx' = [ctx EXCEPT ![p] =
                          [c EXCEPT !.embs = embeddings, !.bi = 1, !.mem = c.batch[1],
                                    !.emb = embeddings[1]]]
             /\ ret' = NoReturn
  /\ UNCHANGED <<relations, nextMemId>>

\* delete_memory with the relations that have the memory as target left behind.
DeleteMemorySourceOnly(p, memory_id, user_id) ==
  /\ pc[p] = "idle"
  /\ IF memory_id \in MemoryIds /\ memories[memory_id].owner = user_id
     THEN /\ relations' = [r \in {x \in BagToSet(relations) : x.src # memory_id}
                             |-> relations[r]]
          /\ memories' = [m \in MemoryIds \ {memory_id} |-> memories[m]]
          /\ ret' = Returned(p, "delete", TRUE)
     ELSE /\ ret' = Returned(p, "delete", FALSE)
          /\ UNCHANGED <<memories, relations>>
  /\ UNCHANGED <<nextMemId, pc, ctx>>

\* delete_memory of the synchronous service: the memory is looked up by id and
\* user_id; the relations that have it as source or as target and the memory
\* itself are deleted in one transaction.
DeleteMemory(p, memory_id, user_id) ==
  /\ pc[p] = "idle"
  /\ IF memory_id \in MemoryIds /\ memories[memory_id].owner = user_id
     THEN /\ relations' = [r \in {x \in BagToSet(relations) :
                                    x.src # memory_id /\ x.dst # memory_id}
                             |-> relations[r]]
          /\ memories' = [m \in MemoryIds \ {memory_id} |-> memories[m]]
          /\ ret' = Returned(p, "delete", TRUE)
     ELSE /\ ret' = Returned(p, "delete", FALSE)
          /\ UNCHANGED <<memories, relations>>
  /\ UNCHANGED <<nextMemId, pc, ctx>>

PassStep(p) == Scan(p) \/ CheckAdd(p) \/ Commit(p)

Step(p) == PassStep(p) \/ \E ok \in BOOLEAN : BackfillEmbed(p, ok)

StoreCalls(p) ==
  \E o \in Owners, t \in Texts, ok \in BOOLEAN :
    /\ ok => nextMemId <= MaxMem
    /\ StoreCall(p, o, t, ok)

BackfillCalls(p) ==
  \E o \in Owners, n \in 0..MaxBatch :
    \E chosen \in SUBSET Unembedded(o) : BackfillCall(p, o, n, chosen)

Chat == \E o \in Owners, t \in Texts : nextMemId <= MaxMem /\ AddUnembedded(o, t)

\* update_embeddings_batch is the periodic job of one scheduler: its calls
\* overlap the store calls, not each other.  (Two overlapping backfills of one
\* memory are the only way to a pass that meets two rows for one pair, the
\* MultipleResultsFound branch of CheckAdd.)
BackfillProcs == {1}

\* Calls overlap: every awaited database call is a point where another call
\* may run.
Next ==
  \/ Chat
  \/ \E p \in Procs : StoreCalls(p) \/ Step(p)
  \/ \E p \in BackfillProcs : BackfillCalls(p)

Spec == Init /\ [][Next]_vars

\* Calls do not overlap: one caller makes them one after the other.
NextSeq == Chat \/ StoreCalls(1) \/ BackfillCalls(1) \/ Step(1)

SpecSeq == Init /\ [][NextSeq]_vars

\* A corpus larger than the top-K cut: one caller stores one memory after the
\* other for one owner; the first two memories have any text, every later one has the text "x".
FanTexts == IF nextMemId <= 2 THEN Texts ELSE {"x"}

FanStore == \E t \in FanTexts : nextMemId <= FanMaxMem /\ StoreCall(1, 1, t, TRUE)

NextFan == FanStore \/ PassStep(1)

SpecFan == Init /\ [][NextFan]_vars

\* ------------------------------------------------- the pass as a function
\* The number of rows of the table `rows` between a and b, in either direction.
RowsBetweenIn(rows, a, b) ==
  LET hit == {r \in BagToSet(rows) : Joins(r, a, b)}
  IN BagCardinality([r \in hit |-> rows[r]])

\* The loop over relationships run without interruption on the table `rows`:
\* the rows the pass has added when it reaches its commit.
RECURSIVE NewRows(_, _, _, _)
NewRows(rows, id, relationships, pending) ==
  IF relationships = << >> THEN pending
  ELSE LET related_id == Head(relationships)[1]
           existing == RowsBetweenIn(rows, id, related_id)
                         + Len(SelectSeq(pending, LAMBDA r : Joins(r, id, related_id)))
       IN NewRows(rows, id, Tail(relationships),
                  IF existing = 0
                  THEN Append(pending, [src |-> id, dst |-> related_id,
                                        type |-> "similar_content",
                                        strength |-> Head(relationships)[2]])
                  ELSE pending)

\* _update_memory_relationships(db, memory, similarity_threshold) for the
\* memory `id`, whole, on the table `rows`; the corpus query sees the embedded
\* memories of the owner in `corpus` and returns them by ascending id.
PassUnder(rows, id, corpus, similarity_threshold) ==
  IF ~Truthy(memories[id].emb) THEN << >>
  ELSE LET order == Asc({m \in corpus : m # id /\ memories[m].owner = memories[id].owner
                                          /\ memories[m].emb # None})
           all_embeddings == [i \in 1..Len(order) |-> <<order[i], memories[order[i]].emb>>]
           relationships == UpdateMemoryRelationships(id, memories[id].emb, all_embeddings,
                                                      similarity_threshold)
       IN NewRows(rows, id, relationships, << >>)

\* _update_memory_relationships(db, memory) run once more for the memory `id`
\* on the committed table, its corpus query returning the rows in `order`: the
\* rows this pass adds.
SecondPass(id, order) ==
  IF ~Truthy(memories[id].emb) THEN << >>
  ELSE NewRows(relations, id, Relationships(id, memories[id].emb, order), << >>)

\* The memories 1..n stored by store_memory calls one after the other, every
\* pass run with the same similarity_threshold: the table of relations at the
\* end and the number of rows each pass has added.
RECURSIVE StoreSequence(_, _)
StoreSequence(n, similarity_threshold) ==
  IF n = 0 THEN [rows |-> EmptyBag, created |-> << >>]
  ELSE LET before == StoreSequence(n - 1, similarity_threshold)
           added == PassUnder(before.rows, n, 1..(n - 1), similarity_threshold)
       IN [rows |-> before.rows (+) SeqToBag(added),
           created |-> Append(before.created, Len(added))]

DeleteCalls(p) == \E m \in 1..MaxMem, u \in Owners : DeleteMemory(p, m, u)

\* One caller that also deletes memories between its other calls.
NextDel == NextSeq \/ DeleteCalls(1)

SpecDel == Init /\ [][NextDel]_vars

\* ------------------------------------------------ get_related_memories
\* A get_related_memories call: its arguments, kept by the caller.
RelatedCall(memory_id, limit) ==
  [op |-> "related", memory_id |-> memory_id, limit |-> limit]

\* The relations query with its target condition left out.
IncidentRelationsSourceOnly(memory_id) ==
  {r \in BagToSet(relations) : r.src = memory_id}

\* where(or_(source_memory_id == memory_id, target_memory_id == memory_id))
IncidentRelations(memory_id) ==
  {r \in BagToSet(relations) : r.src = memory_id \/ r.dst = memory_id}

\* order_by(strength.desc()): the orders in which the rows S can come back;
\* rows of equal strength come in any order.
StrengthOrders(S) ==
  {f \in [1..Cardinality(S) -> S] :
     /\ \A i, j \in 1..Cardinality(S) : f[i] = f[j] => i = j
     /\ \A i, j \in 1..Cardinality(S) : i < j => f[i].strength >= f[j].strength}

\* Every row as often as the table holds it.
RECURSIVE WithCopies(_)
WithCopies(order) ==
  IF order = << >> THEN << >>
  ELSE [i \in 1..relations[Head(order)] |-> Head(order)] \o WithCopies(Tail(order))

\* The endpoint of a relation that is not memory_id.
RelatedId(relation, memory_id) ==
  IF relation.src = memory_id THEN relation.dst ELSE relation.src

\* get_related_memories: the memory is looked up by id alone; its relations
\* are read strongest first under LIMIT; every relation whose other endpoint
\* is found gives one entry (related_id, strength).
GetRelatedMemories(p, memory_id, limit) ==
  /\ pc[p] = "idle"
  /\ IF memory_id \notin MemoryIds
     THEN ret' = Returned(p, "related", << >>)
     ELSE \E order \in StrengthOrders(IncidentRelations(memory_id)) :
            LET rows == Prefix(WithCopies(order), limit)
                entries == [k \in 1..Len(rows) |->
                              <<RelatedId(rows[k], memory_id), rows[k].strength>>]
            IN ret' = Returned(p, "related",
                               SelectSeq(entries, LAMBDA e : e[1] \in MemoryIds))
  /\ ctx' = [ctx EXCEPT ![p] = RelatedCall(memory_id, limit)]
  /\ UNCHANGED <<memories, relations, nextMemId, pc>>

RelatedCalls(p) ==
  \E m \in 1..MaxMem, limit \in 1..MaxLimit : GetRelatedMemories(p, m, limit)

\* One caller that stores memories and asks for the related ones in between.
NextRel == StoreCalls(1) \/ PassStep(1) \/ RelatedCalls(1)

SpecRel == Init /\ [][NextRel]_vars

\* ------------------------------------------- calls of EmbeddingService
\* A call of a function of EmbeddingService, which reads no table: the caller
\* holds its arguments; `encoded` is what the encoder model has been called with.
PureCall(op, args) == [op |-> op, args |-> args, encoded |-> << >>]

\* The state in which caller 1 is about to make the call.
Calling(call) ==
  /\ memories = << >>
  /\ relations = EmptyBag
  /\ nextMemId = 1
  /\ pc = [p \in Procs |-> IF p = 1 THEN "call" ELSE "idle"]
  /\ ctx = [p \in Procs |-> IF p = 1 THEN call ELSE NoCall]
  /\ ret = NoReturn

\* The embeddings a candidate list or a comparison can hold.
Vectors == {None, ZeroVector, <<5, 0>>, <<4, 3>>, <<3, 4>>}

\* The candidate lists of at most n entries; the id of an entry is its position.
RECURSIVE CandidateLists(_)
CandidateLists(n) ==
  IF n = 0 THEN {<< >>}
  ELSE LET shorter == CandidateLists(n - 1)
       IN shorter \cup {Append(l, <<Len(l) + 1, v>>) :
                          l \in {x \in shorter : Len(x) = n - 1}, v \in Vectors}

FindArguments ==
  [query : {None, ZeroVector, <<5, 0>>, <<4, 3>>},
   embeddings : CandidateLists(MaxCand),
   threshold : {0, 70, 100},
   top_k : {<< >>} \cup {<<k>> : k \in 0..MaxTopK}]

InitFind == \E a \in FindArguments : Calling(PureCall("find_similar_embeddings", a))

FindSimilarEmbeddingsCall ==
  /\ pc[1] = "call"
  /\ ctx[1].op = "find_similar_embeddings"
  /\ LET a == ctx[1].args
     IN ret' = Returned(1, "find_similar_embeddings",
                        FindSimilarEmbeddings(a.query, a.embeddings, a.threshold, a.top_k))
  /\ pc' = [pc EXCEPT ![1] = "idle"]
  /\ UNCHANGED <<memories, relations, nextMemId, ctx>>

SpecFind == InitFind /\ [][FindSimilarEmbeddingsCall]_vars

\* The embeddings calculate_similarity is called with: of one dimension, some
\* pointing away from each other, some longer than others.
SimilarityVectors ==
  Vectors \cup {<<-5, 0>>, <<-4, 3>>, <<0, -5>>, <<-3, -4>>, <<10, 0>>, <<6, 8>>}

InitSimilarity ==
  \E a \in [embedding1 : SimilarityVectors, embedding2 : SimilarityVectors] :
    Calling(PureCall("calculate_similarity", a))

CalculateSimilarityCall ==
  /\ pc[1] = "call"
  /\ ctx[1].op = "calculate_similarity"
  /\ ret' = Returned(1, "calculate_similarity",
                     CalculateSimilarity(ctx[1].args.embedding1, ctx[1].args.embedding2))
  /\ pc' = [pc EXCEPT ![1] = "idle"]
  /\ UNCHANGED <<memories, relations, nextMemId, ctx>>

SpecSimilarity == InitSimilarity /\ [][CalculateSimilarityCall]_vars

\* The texts a batch can hold.
BatchTexts == {"", " ", "x", "y"}

\* The lists of at most n texts.
RECURSIVE TextLists(_)
TextLists(n) ==
  IF n = 0 THEN {<< >>}
  ELSE LET shorter == TextLists(n - 1)
       IN shorter \cup {Append(l, t) : l \in {x \in shorter : Len(x) = n - 1},
                                      t \in BatchTexts}

InitBatch ==
  \E texts \in TextLists(MaxTexts) :
    Calling(PureCall("create_batch_embeddings", [texts |-> texts]))

\* create_batch_embeddings; the encoder model is called once, on valid_texts,
\* when there is a text and not every text is blank.
CreateBatchEmbeddingsCall ==
  /\ pc[1] = "call"
  /\ ctx[1].op = "create_batch_embeddings"
  /\ LET texts == ctx[1].args.texts
     IN /\ ret' = Returned(1, "create_batch_embeddings", CreateBatchEmbeddings(texts))
        /\ ctx' = [ctx EXCEPT ![1].encoded =
                     IF texts = << >> \/ ValidTexts(texts) = << >> THEN << >>
                     ELSE <<ValidTexts(texts)>>]
  /\ pc' = [pc EXCEPT ![1] = "idle"]
  /\ UNCHANGED <<memories, relations, nextMemId>>

SpecBatch == InitBatch /\ [][CreateBatchEmbeddingsCall]_vars

\* ---------------------------------------------------- SearchCoordinator
\* The searches read the table memories with the columns memory_type and
\* created_at; a moment is a whole number, and the memory with id i was
\* created at moment i.  Similarities are scaled by 100, weights by 10 and
\* combined scores by 1000.
MemoryTypes == {"episodic", "semantic"}

\* The rows of the owner who searches: a content with the embedding the
\* encoder gives it, or a content stored without an embedding.
OwnRows ==
  {[owner |-> 1, content |-> ce[1], memory_type |-> t, emb |-> ce[2]] :
     t \in MemoryTypes,
     ce \in {<<"x", CreateEmbedding("x")>>, <<"y", CreateEmbedding("y")>>,
             <<"Xx", CreateEmbedding("Xx")>>, <<"x", None>>}}

\* A row of another owner that matches every query and every filter.
OtherOwnerRow ==
  [owner |-> 2, content |-> "x", memory_type |-> "episodic", emb |-> CreateEmbedding("x")]

\* The tables of at most n rows.
RECURSIVE Corpora(_)
Corpora(n) ==
  IF n = 0 THEN {<< >>}
  ELSE LET smaller == Corpora(n - 1)
       IN smaller \cup
            {Append(t, [owner |-> r.owner, content |-> r.content,
                        memory_type |-> r.memory_type, emb |-> r.emb,
                        created_at |-> n]) :
               t \in {x \in smaller : Len(x) = n - 1},
               r \in OwnRows \cup {OtherOwnerRow}}

\* A call of a search of MemoryService: its arguments and the intermediate
\* results of hybrid_search.
SearchCall(op, args) ==
  [op |-> op, args |-> args, semantic_results |-> << >>, keyword_memories |-> {}]

\* The filters of a search: (memory_types, time_range), None for an absent one.
Filters == {<<None, None>>, <<<<"episodic">>, None>>, <<None, <<2, 3>>>>}

SemanticArguments ==
  [user_id : {1}, query : {"", "x"}, filters : Filters, limit : 1..MaxLimit,
   similarity_threshold : {DefaultSearchThreshold, 90}]

HybridArguments ==
  [user_id : {1}, query : {"x"}, filters : {f \in Filters : f[2] = None},
   limit : 1..MaxLimit,
   weights : {<<DefaultKeywordWeight, DefaultSemanticWeight>>, <<10, 0>>}]

SearchCalls ==
  {SearchCall("semantic_search", a) : a \in SemanticArguments}
    \cup {SearchCall("hybrid_search", a) : a \in HybridArguments}

InitSearch ==
  \E corpus \in Corpora(MaxRows), call \in SearchCalls :
    /\ memories = corpus
    /\ relations = EmptyBag
    /\ nextMemId = Len(corpus) + 1
    /\ pc = [p \in Procs |-> IF p = 1 THEN "call" ELSE "idle"]
    /\ ctx = [p \in Procs |-> IF p = 1 THEN call ELSE NoCall]
    /\ ret = NoReturn

\* str(list of one memory type) and str(time_range[i]) of the context.
TypesText(memory_types) == "['" \o memory_types[1] \o "']"

RangeText(time_range) == ToString(time_range[1]) \o " to " \o ToString(time_range[2])

\* create_query_embedding with the context semantic_search builds.
CreateQueryEmbedding(query, memory_types, time_range) ==
  LET with_time == IF Truthy(time_range)
                   THEN query \o " time: " \o RangeText(time_range) ELSE query
      enhanced_query == IF Truthy(memory_types)
                        THEN with_time \o " type: " \o TypesText(memory_types)
                        ELSE with_time
  IN CreateEmbedding(enhanced_query)

\* The base query without its user_id condition.
MatchingRowsAnyOwner(user_id, memory_types, time_range) ==
  {m \in MemoryIds :
     /\ Truthy(memory_types) =>
          \E i \in 1..Len(memory_types) : memories[m].memory_type = memory_types[i]
     /\ Truthy(time_range) =>
          time_range[1] <= memories[m].created_at /\ memories[m].created_at <= time_range[2]}

\* The base query of semantic_search: the owner's rows that pass the filters.
MatchingRows(user_id, memory_types, time_range) ==
  {m \in MemoryIds :
     /\ memories[m].owner = user_id
     /\ Truthy(memory_types) =>
          \E i \in 1..Len(memory_types) : memories[m].memory_type = memory_types[i]
     /\ Truthy(time_range) =>
          time_range[1] <= memories[m].created_at /\ memories[m].created_at <= time_range[2]}

\* The orders in which a query without ORDER BY can return the rows S.
RowOrders(S) ==
  {f \in [1..Cardinality(S) -> S] : \A i, j \in 1..Cardinality(S) : f[i] = f[j] => i = j}

\* The loop of semantic_search over the rows in the order they were returned.
RECURSIVE MemoryScores(_, _, _)
MemoryScores(query_embedding, order, similarity_threshold) ==
  IF order = << >> THEN << >>
  ELSE LET m == Head(order)
           rest == MemoryScores(query_embedding, Tail(order), similarity_threshold)
           similarity == CalculateSimilarity(query_embedding, memories[m].emb)
       IN IF Truthy(memories[m].emb) /\ similarity >= similarity_threshold
          THEN <<<<m, similarity>>>> \o rest
          ELSE rest

\* semantic_search on the rows `order`: (id, similarity) pairs.
SemanticSearch(order, query, memory_types, time_range, limit, similarity_threshold) ==
  LET query_embedding == CreateQueryEmbedding(query, memory_types, time_range)
      memory_scores == MemoryScores(query_embedding, order, similarity_threshold)
  IN Prefix(SortByScore(memory_scores, Len(memory_scores)), limit)

\* semantic_search.  Its loop calls calculate_similarity for every row that has
\* an embedding; for a row of another dimension than the query embedding the
\* call raises ValueError, which semantic_search does not catch.
SemanticSearchCall ==
  /\ pc[1] = "call"
  /\ ctx[1].op = "semantic_search"
  /\ LET a == ctx[1].args
         rows == MatchingRows(a.user_id, a.filters[1], a.filters[2])
         query_embedding == CreateQueryEmbedding(a.query, a.filters[1], a.filters[2])
     IN IF \E m \in rows : /\ Truthy(memories[m].emb)
                            /\ IncompatibleDimension(query_embedding, memories[m].emb)
        THEN ret' = Raised(1, "semantic_search", "ValueError")
        ELSE \E order \in RowOrders(rows) :
               ret' = Returned(1, "semantic_search",
                               SemanticSearch(order, a.query, a.filters[1], a.filters[2],
                                              a.limit, a.similarity_threshold))
  /\ pc' = [pc EXCEPT ![1] = "idle"]
  /\ UNCHANGED <<memories, relations, nextMemId, ctx>>

\* A text as its characters.
Letters(text) ==
  CASE text = "" -> << >>
    [] text = "x" -> <<"x">>
    [] text = "y" -> <<"y">>
    [] text = "Xx" -> <<"X", "x">>

\* str.lower
Lower(chars) == [i \in 1..Len(chars) |-> IF chars[i] = "X" THEN "x" ELSE chars[i]]

\* str.count: the occurrences that do not overlap, from the left.
RECURSIVE CountFrom(_, _, _)
CountFrom(chars, sub, i) ==
  IF i + Len(sub) - 1 > Len(chars) THEN 0
  ELSE IF SubSeq(chars, i, i + Len(sub) - 1) = sub
       THEN 1 + CountFrom(chars, sub, i + Len(sub))
       ELSE CountFrom(chars, sub, i + 1)

Count(chars, sub) == IF sub = << >> THEN Len(chars) + 1 ELSE CountFrom(chars, sub, 1)

\* func.lower(Memory.content).contains(query.lower())
Contains(content, query) ==
  LET chars == Lower(Letters(content))
      sub == Lower(Letters(query))
  IN \E i \in 1..(Len(chars) - Len(sub) + 1) : SubSeq(chars, i, i + Len(sub) - 1) = sub

\* The keyword query restricted to the rows that have an embedding.
KeywordRowsEmbedded(user_id, query, memory_types, time_range) ==
  {m \in MatchingRows(user_id, memory_types, time_range) :
     Contains(memories[m].content, query) /\ memories[m].emb # None}

\* The keyword query of hybrid_search before its LIMIT.
KeywordRows(user_id, query, memory_types, time_range) ==
  {m \in MatchingRows(user_id, memory_types, time_range) : Contains(memories[m].content, query)}

\* A keyword score that only says whether the query occurs.
KeywordScoreBoolean(content, query) ==
  IF Count(Lower(Letters(content)), Lower(Letters(query))) > 0 THEN 100 ELSE 0

\* min(1.0, match_count / 10.0)
KeywordScore(content, query) ==
  LET match_count == Count(Lower(Letters(content)), Lower(Letters(query)))
  IN IF 10 * match_count > 100 THEN 100 ELSE 10 * match_count

\* The similarity semantic_results holds for a memory; none if it is not there.
SemanticScoreOf(semantic_results, m) ==
  LET hit == {k \in 1..Len(semantic_results) : semantic_results[k][1] = m}
  IN IF hit = {} THEN << >> ELSE <<semantic_results[CHOOSE k \in hit : TRUE][2]>>

\* One entry of combined_results: (id, combined_score, search_type).
CombinedResult(m, semantic_results, keyword_memories, query, keyword_weight, semantic_weight) ==
  LET sem == SemanticScoreOf(semantic_results, m)
      semantic_score == IF sem = << >> THEN 0 ELSE sem[1] * semantic_weight
      keyword_score == IF m \in keyword_memories
                       THEN KeywordScore(memories[m].content, query) * keyword_weight
                       ELSE 0
  IN <<m, semantic_score + keyword_score,
       IF sem # << >> THEN (IF m \in keyword_memories THEN "both" ELSE "semantic")
       ELSE "keyword">>

\* hybrid_search.  `order` is the row order of the semantic query, `found` the
\* rows the keyword query returns under its LIMIT, `mix` the order in which
\* the set all_memory_ids is iterated.
HybridSearchCall ==
  /\ pc[1] = "call"
  /\ ctx[1].op = "hybrid_search"
  /\ LET a == ctx[1].args
         keyword_rows == KeywordRows(a.user_id, a.query, a.filters[1], a.filters[2])
     IN \E order \in RowOrders(MatchingRows(a.user_id, a.filters[1], a.filters[2])),
           found \in SUBSET keyword_rows :
          /\ Cardinality(found) = Min(a.limit, Cardinality(keyword_rows))
          /\ LET semantic_results ==
                   SemanticSearch(order, a.query, a.filters[1], a.filters[2], a.limit,
                                  DefaultSearchThreshold)
                 all_memory_ids ==
                   {semantic_results[k][1] : k \in 1..Len(semantic_results)} \cup found
             IN \E mix \in RowOrders(all_memory_ids) :
                  LET combined_results ==
                        [k \in 1..Len(mix) |->
                           CombinedResult(mix[k], semantic_results, found, a.query,
                                          a.weights[1], a.weights[2])]
                  IN /\ ret' = Returned(1, "hybrid_search",
                                        Prefix(SortByScore(combined_results,
                                                           Len(combined_results)),
                                               a.limit))
                     /\ ctx' = [ctx EXCEPT ![1].semantic_results = semantic_results,
                                           ![1].keyword_memories = found]
  /\ pc' = [pc EXCEPT ![1] = "idle"]
  /\ UNCHANGED <<memories, relations, nextMemId>>

NextSearch == SemanticSearchCall \/ HybridSearchCall

SpecSearch == InitSearch /\ [][NextSearch]_vars

\* A caller that makes the same hybrid_search call twice on an unchanged
\* table: `calls` counts the calls made, `first` is what the first returned.
RepeatedCall(args) == [op |-> "hybrid_search", args |-> args, calls |-> 0, first |-> << >>]

\* The repeated call: the default weights, no filter.
TwiceArguments ==
  {a \in HybridArguments :
     /\ a.filters = <<None, None>>
     /\ a.weights = <<DefaultKeywordWeight, DefaultSemanticWeight>>}

InitTwice ==
  \E corpus \in Corpora(MaxRows), a \in TwiceArguments :
    /\ memories = corpus
    /\ relations = EmptyBag
    /\ nextMemId = Len(corpus) + 1
    /\ pc = [p \in Procs |-> IF p = 1 THEN "call" ELSE "idle"]
    /\ ctx = [p \in Procs |-> IF p = 1 THEN RepeatedCall(a) ELSE NoCall]
    /\ ret = NoReturn

\* One of the two hybrid_search calls.  Each call runs its own queries: the
\* row order of the semantic query, the rows the keyword LIMIT keeps and the
\* iteration order of the set of string ids are chosen anew.
HybridSearchAgain ==
  /\ pc[1] = "call"
  /\ ctx[1].op = "hybrid_search"
  /\ LET a == ctx[1].args
         keyword_rows == KeywordRows(a.user_id, a.query, a.filters[1], a.filters[2])
     IN \E order \in RowOrders(MatchingRows(a.user_id, a.filters[1], a.filters[2])),
           found \in SUBSET keyword_rows :
          /\ Cardinality(found) = Min(a.limit, Cardinality(keyword_rows))
          /\ LET semantic_results ==
                   SemanticSearch(order, a.query, a.filters[1], a.filters[2], a.limit,
                                  DefaultSearchThreshold)
                 all_memory_ids ==
                   {semantic_results[k][1] : k \in 1..Len(semantic_results)} \cup found
             IN \E mix \in RowOrders(all_memory_ids) :
                  LET combined_results ==
                        [k \in 1..Len(mix) |->
                           CombinedResult(mix[k], semantic_results, found, a.query,
                                          a.weights[1], a.weights[2])]
                      results == Prefix(SortByScore(combined_results, Len(combined_results)),
                                        a.limit)
                  IN /\ ret' = Returned(1, "hybrid_search", results)
                     /\ ctx' = [ctx EXCEPT ![1].calls = @ + 1,
                                           ![1].first = IF ctx[1].calls = 0 THEN results ELSE @]
  /\ pc' = [pc EXCEPT ![1] = IF ctx[1].calls = 0 THEN "call" ELSE "idle"]
  /\ UNCHANGED <<memories, relations, nextMemId>>

SpecTwice == InitTwice /\ [][HybridSearchAgain]_vars

\* --------------------------------------------------- ClusterCoordinator
\* The column meta_data: JSON null, or a dict that has the key "entities" or
\* not; an entity is a dict that has the key "value" or not.
Entity(value) == [keys |-> {"type", "value"}, type |-> "person", value |-> value]

EntityWithoutValue == [keys |-> {"type"}, type |-> "person", value |-> ""]

MetaNull == [null |-> TRUE, keys |-> {}, entities |-> << >>]

MetaDict(keys, entities) == [null |-> FALSE, keys |-> keys, entities |-> entities]

\* Metadata as the extractor of POST /chat and the default of store_memory
\* (metadata or {}) produce it: a dict whose entities, if any, have a type and
\* a value each.
WrittenShapes ==
  {MetaDict({}, << >>), MetaDict({"entities"}, << >>),
   MetaDict({"entities"}, <<Entity("Alice")>>), MetaDict({"entities"}, <<Entity("Bob")>>)}

\* Every shape the column can hold: JSON null, and whatever dict a caller of
\* POST /store has passed as metadata.
AllShapes ==
  WrittenShapes \cup {MetaNull, MetaDict({"entities"}, <<EntityWithoutValue>>)}

\* The rows of the owner who asks that have an embedding.
EmbeddedRows(shapes) ==
  {[owner |-> 1, content |-> t, memory_type |-> c, emb |-> CreateEmbedding(t),
    meta_data |-> md] : t \in {"x", "y"}, c \in MemoryTypes, md \in shapes}

\* The rows of that owner stored without an embedding.
UnembeddedRows ==
  {[owner |-> 1, content |-> t, memory_type |-> c, emb |-> None,
    meta_data |-> MetaDict({}, << >>)] : t \in {"x", "y"}, c \in MemoryTypes}

\* A row of another owner, with an embedding.
OtherOwnerClusterRow ==
  [owner |-> 2, content |-> "x", memory_type |-> "episodic", emb |-> CreateEmbedding("x"),
   meta_data |-> MetaDict({}, << >>)]

\* The tables of at most n rows of the given kinds; the row with id i was
\* created at moment i.
RECURSIVE Tables(_, _)
Tables(n, kinds) ==
  IF n = 0 THEN {<< >>}
  ELSE LET smaller == Tables(n - 1, kinds)
       IN smaller \cup {Append(t, [created_at |-> n] @@ r) :
                          t \in {x \in smaller : Len(x) = n - 1}, r \in kinds}

\* A get_memory_clusters call.
ClusterCall(args) == [op |-> "cluster", args |-> args]

ClusterArguments == [user_id : {1}, n_clusters : 1..MaxClusters \cup {DefaultNClusters}]

\* The state in which caller 1 is about to make `call` on the table `corpus`.
CallingOn(corpus, call) ==
  /\ memories = corpus
  /\ relations = EmptyBag
  /\ nextMemId = Len(corpus) + 1
  /\ pc = [p \in Procs |-> IF p = 1 THEN "call" ELSE "idle"]
  /\ ctx = [p \in Procs |-> IF p = 1 THEN call ELSE NoCall]
  /\ ret = NoReturn

\* KMeans(n_clusters).fit_predict on the embeddings of `order`, as the list of
\* clusters that the loop over the labels builds: equal vectors get one label,
\* min(n_clusters, number of distinct vectors) labels are used, a cluster
\* holds its members in input order and the clusters come in the order of
\* their first members.  Which vectors go together is left to the library.
KMeansClusters(order, n_clusters) ==
  LET n == Len(order)
      distinct == Cardinality({memories[order[i]].emb : i \in 1..n})
      used == Min(n_clusters, distinct)
      labels == {f \in [1..n -> 1..used] :
                   /\ \A c \in 1..used : \E i \in 1..n : f[i] = c
                   /\ \A i, j \in 1..n :
                        memories[order[i]].emb = memories[order[j]].emb => f[i] = f[j]
                   /\ \A i \in 1..n : f[i] > 1 => \E j \in 1..(i - 1) : f[j] = f[i] - 1}
  IN {[c \in 1..used |-> SelectSeq(order, LAMBDA m :
                            \E i \in 1..n : order[i] = m /\ f[i] = c)] : f \in labels}

\* cluster_embeddings without its test on the number of embeddings.
ClusterEmbeddingsAlwaysKMeans(order, n_clusters) == KMeansClusters(order, n_clusters)

\* cluster_embeddings: one cluster with everything when there are fewer
\* embeddings than n_clusters, the clusters of k-means otherwise.
ClusterEmbeddings(order, n_clusters) ==
  IF order = << >> \/ Len(order) < n_clusters THEN {<<order>>}
  ELSE KMeansClusters(order, n_clusters)

\* memory.get("metadata", {}).get("entities"): the key "metadata" is always
\* there, so the default is never used; a missing key "entities" gives None.
MetaEntities(meta_data) ==
  IF "entities" \in meta_data.keys THEN meta_data.entities ELSE None

\* The exception the loop of _generate_cluster_name over `members` raises, ""
\* when it raises none: .get on None, entity["value"] on an entity without it.
RECURSIVE NamingError(_)
NamingError(members) ==
  IF members = << >> THEN ""
  ELSE LET meta_data == memories[Head(members)].meta_data
           entities == MetaEntities(meta_data)
       IN IF meta_data.null THEN "AttributeError"
          ELSE IF \E i \in 1..Len(entities) : "value" \notin entities[i].keys
               THEN "KeyError"
               ELSE NamingError(Tail(members))

\* all_entities of _generate_cluster_name.
RECURSIVE AllEntities(_)
AllEntities(members) ==
  IF members = << >> THEN << >>
  ELSE LET entities == MetaEntities(memories[Head(members)].meta_data)
       IN [i \in 1..Len(entities) |-> entities[i].value] \o AllEntities(Tail(members))

\* Counter(items).most_common(1)[0][0]: the item counted most often, the one
\* met first among equals.
MostCommon(items) ==
  LET Occurrences(i) == Cardinality({j \in 1..Len(items) : items[j] = items[i]})
      first == CHOOSE i \in 1..Len(items) :
                 /\ \A j \in 1..Len(items) : Occurrences(j) <= Occurrences(i)
                 /\ \A j \in 1..(i - 1) : Occurrences(j) < Occurrences(i)
  IN items[first]

\* str.title of a memory type.
Title(memory_type) ==
  CASE memory_type = "episodic" -> "Episodic"
    [] memory_type = "semantic" -> "Semantic"

\* _generate_cluster_name when its loop raises nothing.
GenerateClusterName(members) ==
  LET all_entities == AllEntities(Prefix(members, NameSample))
      types == [i \in 1..Len(members) |-> memories[members[i]].memory_type]
  IN IF all_entities # << >> THEN MostCommon(all_entities) \o " Memories"
     ELSE IF types # << >> THEN Title(MostCommon(types)) \o " Memories"
     ELSE "Memory Cluster"

\* The first exception that naming the clusters in their order raises.
RECURSIVE ClustersError(_)
ClustersError(clusters) ==
  IF clusters = << >> THEN ""
  ELSE LET error == NamingError(Prefix(Head(clusters), NameSample))
       IN IF error # "" THEN error ELSE ClustersError(Tail(clusters))

\* cluster_results after the loop over the first n clusters: the dict from
\* names to members; an assignment to a name that is there replaces its value.
RECURSIVE ClusterResults(_, _)
ClusterResults(clusters, n) ==
  IF n = 0 THEN << >>
  ELSE (GenerateClusterName(clusters[n]) :> clusters[n]) @@ ClusterResults(clusters, n - 1)

\* get_memory_clusters.  `order` is the row order of its query.
GetMemoryClustersCall ==
  /\ pc[1] = "call"
  /\ ctx[1].op = "cluster"
  /\ LET a == ctx[1].args
         rows == {m \in MemoryIds : memories[m].owner = a.user_id /\ memories[m].emb # None}
     IN IF rows = {}
        THEN ret' = Returned(1, "cluster", << >>)
        ELSE \E order \in RowOrders(rows) :
               \E clusters \in ClusterEmbeddings(order, a.n_clusters) :
                 ret' = IF ClustersError(clusters) # ""
                        THEN Raised(1, "cluster", ClustersError(clusters))
                        ELSE Returned(1, "cluster", ClusterResults(clusters, Len(clusters)))
  /\ pc' = [pc EXCEPT ![1] = "idle"]
  /\ UNCHANGED <<memories, relations, nextMemId, ctx>>

\* Clustering tables whose metadata is as the extractor produces it.
InitCluster ==
  \E corpus \in Tables(MaxRows, EmbeddedRows(WrittenShapes) \cup UnembeddedRows
                                  \cup {OtherOwnerClusterRow}),
     a \in ClusterArguments :
    CallingOn(corpus, ClusterCall(a))

SpecCluster == InitCluster /\ [][GetMemoryClustersCall]_vars

\* Clustering tables whose metadata has any shape the column can hold.
InitShapes ==
  \E corpus \in Tables(MaxRows, EmbeddedRows(AllShapes) \cup {OtherOwnerClusterRow}),
     a \in ClusterArguments :
    CallingOn(corpus, ClusterCall(a))

SpecShapes == InitShapes /\ [][GetMemoryClustersCall]_vars

\* ------------------------------------------------------- MalformedVector
\* A row of the owner whose stored embedding has the dimension of an earlier
\* encoder model.
MalformedRow ==
  [owner |-> 1, content |-> "x", memory_type |-> "episodic", emb |-> <<5, 0, 0>>]

\* A table that may hold such rows, and a caller who is about to search it or
\* is free to store a memory.
InitMalformed ==
  \E corpus \in Tables(MaxRows, OwnRows \cup {OtherOwnerRow, MalformedRow}) :
    \/ \E a \in SemanticArguments : CallingOn(corpus, SearchCall("semantic_search", a))
    \/ /\ memories = corpus
       /\ relations = EmptyBag
       /\ nextMemId = Len(corpus) + 1
       /\ pc = [p \in Procs |-> "idle"]
       /\ ctx = [p \in Procs |-> NoCall]
       /\ ret = NoReturn

NextMalformed == SemanticSearchCall \/ StoreCalls(1) \/ PassStep(1)

SpecMalformed == InitMalformed /\ [][NextMalformed]_vars

\* ----------------------------------------------------------- EmptyCorpus
\* The owner who asks has no memory with an embedding: no memory at all, or
\* memories stored without one; another owner may have embedded memories.
InitEmpty ==
  \E corpus \in Tables(MaxRows, UnembeddedRows \cup {OtherOwnerClusterRow}),
     call \in SearchCalls \cup {ClusterCall(a) : a \in ClusterArguments} :
    CallingOn(corpus, call)

NextEmpty == SemanticSearchCall \/ HybridSearchCall \/ GetMemoryClustersCall

SpecEmpty == InitEmpty /\ [][NextEmpty]_vars

\* ---------------------------------------------------------------------------
\* Repeated update_embeddings_batch calls on a backlog
\* ---------------------------------------------------------------------------

\* The rows POST /chat leaves behind: a content without an embedding, of the
\* owner whose backlog is processed or of another owner.
BacklogRows ==
  {[owner |-> 1, content |-> t, emb |-> None] : t \in Texts}
    \cup {[owner |-> 2, content |-> "x", emb |-> None]}

\* A backlog of at most MaxRows memories and no running call.
InitBacklog ==
  \E corpus \in Tables(MaxRows, BacklogRows) :
    /\ memories = corpus
    /\ relations = EmptyBag
    /\ nextMemId = Len(corpus) + 1
    /\ pc = [p \in Procs |-> "idle"]
    /\ ctx = [p \in Procs |-> NoCall]
    /\ ret = NoReturn

\* The job calls update_embeddings_batch for the owner with a batch_size of
\* at least 1.
BacklogCalls ==
  \E n \in 1..MaxBatch :
    \E chosen \in SUBSET Unembedded(1) : BackfillCall(1, 1, n, chosen)

\* One caller, a working encoder, no memory arriving.
NextBacklog == BacklogCalls \/ BackfillEmbed(1, TRUE) \/ PassStep(1)

\* The job keeps calling, and the event loop resumes a call at each of its
\* awaited database calls.
SpecBacklog == InitBacklog /\ [][NextBacklog]_vars /\ WF_vars(NextBacklog)

\* ------------------------------------------------------------ properties
\* The number of rows of a bag of relations whose endpoints are a and b.
RECURSIVE Copies(_, _)
Copies(rows, hit) ==
  IF hit = {} THEN 0
  ELSE LET r == CHOOSE x \in hit : TRUE IN rows[r] + Copies(rows, hit \ {r})

EdgesIn(rows, a, b) ==
  Copies(rows, {r \in DOMAIN rows : (r.src = a /\ r.dst = b) \/ (r.src = b /\ r.dst = a)})

Edges(a, b) == EdgesIn(relations, a, b)

\* The rows a running pass has added to its session.
PendingRows(p) == {ctx[p].pending[i] : i \in 1..Len(ctx[p].pending)}

InPass(p) == pc[p] \in {"check", "commit"}

AllIdle == \A p \in Procs : pc[p] = "idle"

\* C1: when calls do not overlap, every unordered pair of memories has at most
\* one relation row, committed or pending, counting both directions: a pass
\* that meets a pair already related adds nothing for it.
C1_AtMostOneEdgePerPair ==
  \A a, b \in MemoryIds :
    a < b =>
      LET committed == Edges(a, b)
      IN \A p \in Procs :
           committed + Cardinality({r \in PendingRows(p) : {r.src, r.dst} = {a, b}}) <= 1

\* A pass has met a pair that was already related and added nothing for it.
C1_Witness ==
  \E p \in Procs :
    /\ pc[p] = "commit"
    /\ ctx[p].pending = << >>
    /\ \E i \in 1..Len(ctx[p].rels) : Edges(ctx[p].mem, ctx[p].rels[i][1]) = 1

\* C2: once every call has returned, also when the calls overlapped, every
\* unordered pair of memories has at most one relation.
C2_AtMostOneEdgeAfterConcurrentStores ==
  AllIdle => \A a, b \in MemoryIds : Edges(a, b) <= 1

Emb(m) == memories[m].emb

Score(a, b) == CosineSimilarity(Emb(a), Emb(b))

SameOwner(a, b) == memories[a].owner = memories[b].owner

\* C3, as stated: once two memories of one owner with similarity at least the
\* threshold have both been stored, exactly one relation joins them.
C3_ExactlyOneEdgePerSimilarPair ==
  AllIdle =>
    \A a, b \in MemoryIds :
      (a # b /\ SameOwner(a, b) /\ Emb(a) # None /\ Emb(b) # None
         /\ Score(a, b) >= SimilarityThreshold)
        => Edges(a, b) = 1

\* The memories stored before b that score against b at least as high as a.
RivalsOf(a, b) ==
  {c \in MemoryIds : c < b /\ c # a /\ SameOwner(c, b) /\ Emb(c) # None
                      /\ Score(b, c) >= Score(b, a)}

\* C3, amended: after sequential stores, two memories of one owner with
\* similarity at least the threshold are joined by at most one relation, and
\* by exactly one when fewer than TopK other memories scored at least as high
\* against the later of the two when it was stored.
C3_OneEdgePerSimilarPairWithinTopK ==
  AllIdle =>
    \A a, b \in MemoryIds :
      (a < b /\ SameOwner(a, b) /\ Emb(a) # None /\ Emb(b) # None
         /\ Score(a, b) >= SimilarityThreshold)
        => /\ Edges(a, b) <= 1
           /\ Cardinality(RivalsOf(a, b)) < TopK => Edges(a, b) = 1

\* Two stored memories are joined by exactly one relation while a third pair,
\* as similar, was cut off by the top-K limit.
C3_Witness ==
  /\ AllIdle
  /\ \E a, b \in MemoryIds : a < b /\ Score(a, b) >= SimilarityThreshold /\ Edges(a, b) = 1
  /\ \E a, b \in MemoryIds : a < b /\ Score(a, b) >= SimilarityThreshold /\ Edges(a, b) = 0

\* The memories a running pass has read as candidates.
ScannedSet(p) == {ctx[p].scanned[i] : i \in 1..Len(ctx[p].scanned)}

\* C4: no relation, committed or pending, joins a memory to itself, and a
\* pass for memory m has not read m as a candidate.
C4_NoSelfLoops ==
  /\ \A r \in BagToSet(relations) : r.src # r.dst
  /\ \A p \in Procs :
       /\ ctx[p].mem \notin ScannedSet(p)
       /\ \A r \in PendingRows(p) : r.src # r.dst

\* A pass has read candidates and added a relation, and relations are committed.
C4_Witness ==
  /\ relations # EmptyBag
  /\ \E p \in Procs : pc[p] = "commit" /\ ctx[p].pending # << >>

\* The candidates of a running pass that score strictly higher than c.
Above(p, c) ==
  {d \in ScannedSet(p) : CosineSimilarity(ctx[p].emb, Emb(d))
                           > CosineSimilarity(ctx[p].emb, Emb(c))}

\* C5: one pass adds at most TopK relations, each from its memory m to a
\* candidate it has read that scores at least the threshold and has fewer than
\* TopK candidates scoring strictly higher.
C5_BoundedFanOut ==
  \A p \in Procs :
    /\ Cardinality(PendingRows(p)) <= TopK
    /\ Len(ctx[p].pending) <= TopK
    /\ \A r \in PendingRows(p) :
         /\ r.src = ctx[p].mem
         /\ r.dst \in ScannedSet(p)
         /\ CosineSimilarity(ctx[p].emb, Emb(r.dst)) >= SimilarityThreshold
         /\ Cardinality(Above(p, r.dst)) < TopK

\* A pass over more than TopK qualifying candidates has added TopK relations.
C5_Witness ==
  \E p \in Procs :
    /\ pc[p] = "commit"
    /\ Len(ctx[p].pending) = TopK
    /\ Cardinality({d \in ScannedSet(p) :
                      CosineSimilarity(ctx[p].emb, Emb(d)) >= SimilarityThreshold}) > TopK

Moved(p) == ctx'[p] # ctx[p]

OwnerOfStep(p) == IF pc[p] = "idle" THEN ctx'[p].owner ELSE ctx[p].owner

\* Both endpoints of every relation, and a pass and the candidates it has
\* read, belong to one owner.
OneOwnerPerEdge ==
  /\ \A r \in BagToSet(relations) : SameOwner(r.src, r.dst)
  /\ \A p \in Procs :
       /\ \A m \in ScannedSet(p) : memories[m].owner = ctx[p].owner
       /\ \A r \in PendingRows(p) :
            memories[r.src].owner = ctx[p].owner /\ memories[r.dst].owner = ctx[p].owner

\* A step of a call for one owner leaves the memories of every other owner and
\* the relations incident to them as they were.
OtherOwnersUntouched ==
  \A p \in Procs :
    Moved(p) =>
      /\ \A m \in MemoryIds :
           memories[m].owner # OwnerOfStep(p) => memories'[m] = memories[m]
      /\ \A r \in BagToSet(relations) \cup BagToSet(relations') :
           (memories'[r.src].owner # OwnerOfStep(p) \/ memories'[r.dst].owner # OwnerOfStep(p))
             => CopiesIn(r, relations') = CopiesIn(r, relations)

\* C7: the endpoints of every relation belong to one owner, and a store or
\* backfill call for one owner reads no memory of another owner as a candidate
\* and changes no memory or relation of another owner.
C7_OwnerIsolation == []OneOwnerPerEdge /\ [][OtherOwnersUntouched]_vars

\* Two owners hold memories with the same embedding; a pass of one owner has
\* read its candidates and relations of that owner are committed.
C7_Witness ==
  /\ \E a, b \in MemoryIds :
       ~SameOwner(a, b) /\ Emb(a) # None /\ Score(a, b) >= SimilarityThreshold
  /\ relations # EmptyBag
  /\ \E p \in Procs : InPass(p) /\ ctx[p].scanned # << >>

\* C8: a memory without an embedding is an endpoint of no relation, committed
\* or pending, is read as a candidate by no pass, and is the subject of no
\* pass that ranks candidates.
C8_UnembeddedHasNoRelations ==
  \A m \in MemoryIds :
    Emb(m) = None =>
      /\ \A r \in BagToSet(relations) : r.src # m /\ r.dst # m
      /\ \A p \in Procs :
           /\ m \notin ScannedSet(p)
           /\ InPass(p) => ctx[p].mem # m
           /\ \A r \in PendingRows(p) : r.src # m /\ r.dst # m

\* A pass has read candidates and added a relation while its owner holds a
\* memory without an embedding.
C8_Witness ==
  \E p \in Procs :
    /\ pc[p] = "commit"
    /\ ctx[p].pending # << >>
    /\ \E m \in MemoryIds : memories[m].owner = ctx[p].owner /\ Emb(m) = None

\* The store call of p returns in this step.
StoreReturns(p) ==
  /\ pc[p] # "idle"
  /\ pc'[p] = "idle"
  /\ ret'.outcome = "returned"
  /\ ret'.op = "store"

\* The candidates a pass has read, c left out, that score at least as high as c.
AtLeast(p, c) ==
  {d \in ScannedSet(p) \ {c} : CosineSimilarity(ctx[p].emb, Emb(d))
                                 >= CosineSimilarity(ctx[p].emb, Emb(c))}

\* C9: when store returns a memory m with an embedding, every embedded memory
\* of the owner that existed when store was called, scores at least the
\* threshold against m and has fewer than TopK candidates scoring at least as
\* high, is joined to m by a committed relation.
C9_RelationsMaterializedAtReturn ==
  [][\A p \in Procs :
       (StoreReturns(p) /\ ctx[p].emb # None) =>
         \A c \in ctx[p].pre :
           (/\ c \in DOMAIN memories'
            /\ CosineSimilarity(ctx[p].emb, Emb(c)) >= SimilarityThreshold
            /\ Cardinality(AtLeast(p, c)) < TopK)
             => EdgesIn(relations', ctx[p].mem, c) >= 1]_vars

\* A store call has just returned a memory whose pass committed a relation
\* from it.
C9_Witness ==
  /\ ret.outcome = "returned"
  /\ ret.op = "store"
  /\ \E r \in BagToSet(relations) : r.src = ret.value

\* C10, as stated: a store call whose encoder call failed has returned the
\* memory, persisted without an embedding.
C10_StoreSurvivesEncoderFailure ==
  (ret.op = "store" /\ ret.err = "EncoderError") =>
    /\ ret.outcome = "returned"
    /\ ret.value \in MemoryIds
    /\ Emb(ret.value) = None

\* The rows of a bag of relations that have memory m as source or as target.
IncidentTo(rows, m) == {r \in BagToSet(rows) : r.src = m \/ r.dst = m}

\* A delete of an existing memory by its owner removes the memory and every
\* relation incident to it and leaves every other memory and relation as it was.
DeleteRemovesExactly ==
  \A p \in Procs, m \in MemoryIds :
    DeleteMemory(p, m, memories[m].owner) =>
      /\ m \notin DOMAIN memories'
      /\ IncidentTo(relations', m) = {}
      /\ \A k \in MemoryIds \ {m} : k \in DOMAIN memories' /\ memories'[k] = memories[k]
      /\ DOMAIN memories' \subseteq MemoryIds
      /\ \A r \in BagToSet(relations) \ IncidentTo(relations, m) :
           CopiesIn(r, relations') = CopiesIn(r, relations)
      /\ BagToSet(relations') \subseteq BagToSet(relations)

\* Both endpoints of every relation are stored memories.
EndpointsExist ==
  \A r \in BagToSet(relations) : r.src \in MemoryIds /\ r.dst \in MemoryIds

\* C11: delete(m) of an existing memory m by its owner leaves m not stored and
\* no relation with m as source or target, and changes no other memory and no
\* relation not incident to m; after any sequence of store, backfill and
\* delete calls both endpoints of every relation are stored memories.
C11_DeleteCascades == [][DeleteRemovesExactly]_vars /\ []EndpointsExist

\* A delete has just removed a memory that two other memories were stored
\* after; the relation between those two is still there.
C11_Witness ==
  /\ ret = Returned(1, "delete", TRUE)
  /\ \E m \in 1..MaxMem : m \notin MemoryIds /\ m + 2 < nextMemId
  /\ \E r \in BagToSet(relations) : r.src \in MemoryIds /\ r.dst \in MemoryIds

\* The memories of the batch of a running update_embeddings_batch call.
BatchSet(c) == {c.batch[i] : i \in 1..Len(c.batch)}

\* The query of update_embeddings_batch: with no memory to process the call
\* returns 0 at once and changes nothing; otherwise its batch is
\* min(batch_size, p) distinct memories of the owner that have no embedding.
BackfillSelects ==
  \A p \in Procs, o \in Owners, n \in 0..MaxBatch :
    \A chosen \in SUBSET Unembedded(o) :
      BackfillCall(p, o, n, chosen) =>
        IF Min(n, Cardinality(Unembedded(o))) = 0
        THEN /\ ret' = Returned(p, "backfill", 0)
             /\ pc'[p] = "idle"
             /\ memories' = memories
             /\ relations' = relations
        ELSE /\ ret'.outcome = "none"
             /\ BatchSet(ctx'[p]) \subseteq Unembedded(o)
             /\ Cardinality(BatchSet(ctx'[p])) = Min(n, Cardinality(Unembedded(o)))
             /\ Len(ctx'[p].batch) = Min(n, Cardinality(Unembedded(o)))

\* The encoding step gives an embedding to the memories of the batch and to no
\* other memory, and the batch stays the same until the call returns.
BackfillEmbeds ==
  \A p \in Procs :
    /\ (pc[p] = "embed" /\ pc'[p] = "scan") =>
         \A m \in MemoryIds :
           IF m \in BatchSet(ctx[p])
           THEN Emb(m) = None /\ memories'[m].emb # None
           ELSE memories'[m] = memories[m]
    /\ (ctx[p].op = "backfill" /\ pc'[p] # "idle") => ctx'[p].batch = ctx[p].batch

\* The update_embeddings_batch call of p returns in this step.
BackfillReturns(p) ==
  /\ pc[p] # "idle"
  /\ pc'[p] = "idle"
  /\ ret'.outcome = "returned"
  /\ ret'.op = "backfill"

\* A call that returns has the size of its batch as value, every memory of the
\* batch has an embedding, and the pass for each of them has run: it is joined
\* to every embedded memory of the owner that scores at least the threshold.
BackfillReturnsCount ==
  \A p \in Procs :
    BackfillReturns(p) =>
      /\ ret'.value = Cardinality(BatchSet(ctx[p]))
      /\ \A m \in BatchSet(ctx[p]) :
           /\ memories'[m].emb # None
           /\ Cardinality(Embedded(ctx[p].owner)) <= TopK =>
                \A c \in Embedded(ctx[p].owner) \ {m} :
                  Score(m, c) >= SimilarityThreshold => EdgesIn(relations', m, c) = 1

\* C12: backfill_embeddings(owner, batch_size) called with p memories of the
\* owner without an embedding gives an embedding to exactly
\* min(batch_size, p) of them, runs relationship maintenance for each and
\* returns that number; with nothing to process it returns 0 and changes no
\* memory and no relation.
C12_BackfillCount ==
  [][BackfillSelects /\ BackfillEmbeds /\ BackfillReturnsCount]_vars

\* A backfill has just returned 2 with a third memory of the owner left
\* without an embedding, and its two memories are joined by a relation.
C12_Witness ==
  /\ ret = Returned(1, "backfill", 2)
  /\ \E a, b, c \in MemoryIds :
       /\ a # b /\ SameOwner(a, b) /\ SameOwner(a, c)
       /\ Emb(a) # None /\ Emb(b) # None /\ Emb(c) = None
       /\ Edges(a, b) = 1

\* The rows of a bag of relations that join a and b, in either direction.
RowsJoining(rows, a, b) ==
  {r \in BagToSet(rows) : (r.src = a /\ r.dst = b) \/ (r.src = b /\ r.dst = a)}

\* No step of store or backfill changes or removes a relation that exists, and
\* a pair that has a relation keeps exactly the rows it has.
ExistingRelationsKept ==
  /\ \A r \in BagToSet(relations) : CopiesIn(r, relations') = CopiesIn(r, relations)
  /\ \A a, b \in MemoryIds :
       Edges(a, b) >= 1 =>
         /\ RowsJoining(relations', a, b) = RowsJoining(relations, a, b)
         /\ EdgesIn(relations', a, b) = Edges(a, b)

\* C13: relationship maintenance never modifies an existing relation: when a
\* pass meets a pair that already has one, in either direction, that relation
\* has the same source, target, type and strength after the pass, and the pass
\* adds no other row for the pair.
C13_ExistingRelationUntouched == [][ExistingRelationsKept]_vars

\* A pass for memory m is at its commit and has met a candidate joined to m by
\* a relation that has the candidate as source; nothing is pending for the pair.
C13_Witness ==
  \E p \in Procs :
    /\ pc[p] = "commit"
    /\ \E i \in 1..Len(ctx[p].rels) :
         LET d == ctx[p].rels[i][1]
         IN /\ \E r \in BagToSet(relations) : r.src = d /\ r.dst = ctx[p].mem
            /\ \A r \in PendingRows(p) : r.dst # d

\* The thresholds the passes are compared under, in ascending order.
Thresholds == <<0, 70, 90, 100>>

\* The memories stored so far, as a sequence of stores.
Stored == nextMemId - 1

\* The stores so far run again under each threshold from the i-th on.
RECURSIVE RunsFrom(_)
RunsFrom(i) ==
  IF i > Len(Thresholds) THEN << >>
  ELSE <<StoreSequence(Stored, Thresholds[i])>> \o RunsFrom(i + 1)

\* C14: for the same sequence of stored memories processed under two
\* thresholds lo <= hi, no pass adds more relations under hi than under lo and
\* the total under hi is at most the total under lo; the passes as a function
\* agree with the passes of the running calls at the program's threshold.
C14_ThresholdMonotone ==
  /\ LET run == RunsFrom(1)
     IN \A lo, hi \in 1..Len(Thresholds) :
          Thresholds[lo] <= Thresholds[hi] =>
            /\ \A n \in 1..Stored : run[hi].created[n] <= run[lo].created[n]
            /\ BagCardinality(run[hi].rows) <= BagCardinality(run[lo].rows)
  /\ AllIdle =>
       BagCardinality(relations)
         = BagCardinality(StoreSequence(Stored, SimilarityThreshold).rows)

\* Every store has returned; the sequence gets fewer relations under 0.9 than
\* under 0.7, still some under 0.9, and a pass of it is cut to TopK rows.
C14_Witness ==
  /\ AllIdle
  /\ LET low == StoreSequence(Stored, 70)
         high == StoreSequence(Stored, 90)
     IN /\ 0 < BagCardinality(high.rows)
        /\ BagCardinality(high.rows) < BagCardinality(low.rows)
        /\ \E n \in 1..Stored : low.created[n] = TopK /\ n > TopK + 1

\* The score of the i-th candidate of a find_similar_embeddings call.
CandidateScore(a, i) == CosineSimilarity(a.query, a.embeddings[i][2])

\* The candidates of a call that have an embedding and score at least the
\* threshold; none when the query embedding is empty.
Qualifying(a) ==
  IF ~Truthy(a.query) THEN {}
  ELSE {i \in 1..Len(a.embeddings) :
          Truthy(a.embeddings[i][2]) /\ CandidateScore(a, i) >= a.threshold}

\* Candidate i is ranked before candidate j: a higher score, or the same score
\* and an earlier place in the input.
RankedBefore(a, i, j) ==
  \/ CandidateScore(a, i) > CandidateScore(a, j)
  \/ CandidateScore(a, i) = CandidateScore(a, j) /\ i < j

\* res is the ranking of the qualifying candidates, cut to its first k when a
\* top_k of k is given.
IsTopMatches(a, res) ==
  LET ids == {res[k][1] : k \in 1..Len(res)}
  IN /\ ids \subseteq Qualifying(a)
     /\ \A k \in 1..Len(res) : res[k][2] = CandidateScore(a, res[k][1])
     /\ \A k, l \in 1..Len(res) : k < l => RankedBefore(a, res[k][1], res[l][1])
     /\ \A i \in Qualifying(a) \ ids : \A k \in 1..Len(res) : RankedBefore(a, res[k][1], i)
     /\ Len(res) = IF a.top_k = << >> THEN Cardinality(Qualifying(a))
                   ELSE Min(a.top_k[1], Cardinality(Qualifying(a)))

\* C15, as stated: find_similar_embeddings returns the candidates that score
\* at least the threshold, by non-increasing score with equal scores in input
\* order, and for every top_k >= 0 given, the first top_k of them and no more.
C15_TopMatches ==
  ret.op = "find_similar_embeddings" => IsTopMatches(ctx[1].args, ret.value)

\* Every component of v is 0.
AllZero(v) == \A i \in 1..Len(v) : v[i] = 0

\* C16: similarity(v1, v2) returns a value in [0.0, 1.0]; it is 0.0 when the
\* cosine is negative and when either vector is all-zero or empty, and the
\* call does not raise.
C16_SimilarityBounds ==
  ret.op = "calculate_similarity" =>
    LET v1 == ctx[1].args.embedding1
        v2 == ctx[1].args.embedding2
    IN /\ ret.outcome = "returned"
       /\ 0 <= ret.value /\ ret.value <= 100
       /\ (AllZero(v1) \/ AllZero(v2)) => ret.value = 0
       /\ (Len(v1) = Len(v2) /\ Dot(v1, v2) < 0) => ret.value = 0

\* A call with two vectors that point away from each other has returned 0.0.
C16_Witness ==
  /\ ret.op = "calculate_similarity"
  /\ ret.value = 0
  /\ ~AllZero(ctx[1].args.embedding1)
  /\ ~AllZero(ctx[1].args.embedding2)
  /\ Dot(ctx[1].args.embedding1, ctx[1].args.embedding2) < 0

\* The text is empty or whitespace only.
EmptyOrWhitespace(t) == t = "" \/ t = " "

\* The number of texts before position i that are not empty or whitespace.
NonEmptyBefore(texts, i) ==
  Cardinality({k \in 1..(i - 1) : ~EmptyOrWhitespace(texts[k])})

\* C17: create_batch_embeddings returns a list as long as its input; position
\* i holds the zero vector exactly when texts[i] is empty or whitespace only,
\* and otherwise the model's vector for texts[i], which is the j-th output of
\* the model for the j-th non-empty text; the model is called on the non-empty
\* texts only.
C17_BatchShape ==
  ret.op = "create_batch_embeddings" =>
    LET texts == ctx[1].args.texts
        result == ret.value
        calls == ctx[1].encoded
    IN /\ ret.outcome = "returned"
       /\ Len(result) = Len(texts)
       /\ \A i \in 1..Len(texts) :
            /\ result[i] = ZeroVector <=> EmptyOrWhitespace(texts[i])
            /\ ~EmptyOrWhitespace(texts[i]) =>
                 /\ result[i] = ModelEncode(texts[i])
                 /\ Len(calls) = 1
                 /\ calls[1][NonEmptyBefore(texts, i) + 1] = texts[i]
       /\ \A c \in 1..Len(calls) :
            /\ \A j \in 1..Len(calls[c]) : ~EmptyOrWhitespace(calls[c][j])
            /\ Len(calls[c]) = Cardinality({i \in 1..Len(texts) : ~EmptyOrWhitespace(texts[i])})

\* A batch with a whitespace text between two different non-empty texts has
\* been encoded.
C17_Witness ==
  /\ ret.op = "create_batch_embeddings"
  /\ ctx[1].args.texts = <<"x", " ", "y">>
  /\ ret.value = <<ModelEncode("x"), ZeroVector, ModelEncode("y")>>
  /\ ctx[1].encoded = <<<<"x", "y">>>>

\* Memory m passes the category and time-range filters of the search call a.
PassesFilters(a, m) ==
  /\ a.filters[1] # None =>
       memories[m].memory_type \in {a.filters[1][i] : i \in 1..Len(a.filters[1])}
  /\ a.filters[2] # None =>
       a.filters[2][1] <= memories[m].created_at /\ memories[m].created_at <= a.filters[2][2]

\* The score of memory m against the query of the call a, encoded with its context.
QueryScore(a, m) ==
  CalculateSimilarity(CreateQueryEmbedding(a.query, a.filters[1], a.filters[2]),
                      memories[m].emb)

\* The memories a semantic search with arguments a may return.
SearchQualifying(a) ==
  {m \in MemoryIds :
     /\ memories[m].owner = a.user_id
     /\ memories[m].emb # None
     /\ PassesFilters(a, m)
     /\ QueryScore(a, m) >= a.similarity_threshold}

\* The ids of a result list.
ResultIds(res) == {res[k][1] : k \in 1..Len(res)}

\* C18: semantic_search returns only memories of the owner that have an
\* embedding, pass the category and time-range filters and score at least the
\* threshold against the query; the result is in non-increasing score order,
\* has at most limit elements (all qualifying ones when they are fewer), and
\* no qualifying memory left out scores strictly higher than a returned one.
C18_SemanticSearch ==
  ret.op = "semantic_search" =>
    LET a == ctx[1].args
        res == ret.value
    IN /\ ret.outcome = "returned"
       /\ ResultIds(res) \subseteq SearchQualifying(a)
       /\ Cardinality(ResultIds(res)) = Len(res)
       /\ \A k \in 1..Len(res) : res[k][2] = QueryScore(a, res[k][1])
       /\ \A k, l \in 1..Len(res) : k < l => res[k][2] >= res[l][2]
       /\ Len(res) <= a.limit
       /\ Len(res) = Min(a.limit, Cardinality(SearchQualifying(a)))
       /\ \A m \in SearchQualifying(a) \ ResultIds(res) :
            \A k \in 1..Len(res) : QueryScore(a, m) <= res[k][2]

\* A search has returned limit memories and left out a qualifying one that
\* scores lower, while another owner holds a memory that scores at least the
\* threshold against the query.
C18_Witness ==
  /\ ret.op = "semantic_search"
  /\ Len(ret.value) = ctx[1].args.limit
  /\ \E m \in SearchQualifying(ctx[1].args) \ ResultIds(ret.value) :
       \A k \in 1..Len(ret.value) : QueryScore(ctx[1].args, m) < ret.value[k][2]
  /\ \E m \in MemoryIds :
       /\ memories[m].owner # ctx[1].args.user_id
       /\ QueryScore(ctx[1].args, m) >= ctx[1].args.similarity_threshold

\* The memories of the owner that pass the filters of the search call a.
OwnedMatching(a) ==
  {m \in MemoryIds : memories[m].owner = a.user_id /\ PassesFilters(a, m)}

\* C19, as stated: semantic_search with an empty query does not fail and
\* returns the owner's memories that pass the filters, most recent first by
\* created_at, cut to limit.
C19_EmptyQueryMostRecentFirst ==
  (ret.op = "semantic_search" /\ ctx[1].args.query = "") =>
    LET a == ctx[1].args
        res == ret.value
    IN /\ ret.outcome = "returned"
       /\ ResultIds(res) \subseteq OwnedMatching(a)
       /\ Len(res) = Min(a.limit, Cardinality(OwnedMatching(a)))
       /\ \A k, l \in 1..Len(res) :
            k < l => memories[res[k][1]].created_at >= memories[res[l][1]].created_at
       /\ \A m \in OwnedMatching(a) \ ResultIds(res) :
            \A k \in 1..Len(res) :
              memories[m].created_at <= memories[res[k][1]].created_at

\* The score the semantic search of a hybrid call has given memory m, times
\* the semantic weight; 0 when that search has not found m.
SemanticPart(c, m) ==
  LET hit == {k \in 1..Len(c.semantic_results) : c.semantic_results[k][1] = m}
  IN IF hit = {} THEN 0
     ELSE c.semantic_results[CHOOSE k \in hit : TRUE][2] * c.args.weights[2]

\* min(1.0, occurrences / 10) of the query in the content of m, times the
\* keyword weight; 0 when the keyword search has not found m.
KeywordPart(c, m) ==
  LET occurrences == Count(Lower(Letters(memories[m].content)), Lower(Letters(c.args.query)))
  IN IF m \notin c.keyword_memories THEN 0
     ELSE Min(100, 10 * occurrences) * c.args.weights[1]

\* The ids the two searches of a hybrid call have found.
FoundBySemantic(c) == ResultIds(c.semantic_results)

FoundByEither(c) == FoundBySemantic(c) \cup c.keyword_memories

\* C20: hybrid_search returns the union of the ids found by its semantic and
\* its keyword search, at most limit of them; the combined score of a result
\* is semantic_score * semantic_weight + keyword_score * keyword_weight with a
\* missing side counted as 0; the tag is "both" exactly when both searches
\* found the memory, "semantic" or "keyword" when only that one did; results
\* are in non-increasing combined-score order and no result left out scores
\* strictly higher than a returned one.
C20_HybridSearch ==
  ret.op = "hybrid_search" =>
    LET c == ctx[1]
        res == ret.value
    IN /\ ret.outcome = "returned"
       /\ ResultIds(res) \subseteq FoundByEither(c)
       /\ Cardinality(ResultIds(res)) = Len(res)
       /\ Len(res) = Min(c.args.limit, Cardinality(FoundByEither(c)))
       /\ \A k \in 1..Len(res) :
            LET m == res[k][1]
            IN /\ res[k][2] = SemanticPart(c, m) + KeywordPart(c, m)
               /\ res[k][3] = "both" <=> (m \in FoundBySemantic(c) /\ m \in c.keyword_memories)
               /\ res[k][3] = "semantic" <=> (m \in FoundBySemantic(c) /\ m \notin c.keyword_memories)
               /\ res[k][3] = "keyword" <=> (m \notin FoundBySemantic(c) /\ m \in c.keyword_memories)
       /\ \A k, l \in 1..Len(res) : k < l => res[k][2] >= res[l][2]
       /\ \A m \in FoundByEither(c) \ ResultIds(res) :
            \A k \in 1..Len(res) : SemanticPart(c, m) + KeywordPart(c, m) <= res[k][2]
       /\ \A m \in c.keyword_memories :
            /\ memories[m].owner = c.args.user_id
            /\ PassesFilters(c.args, m)
            /\ Count(Lower(Letters(memories[m].content)), Lower(Letters(c.args.query))) > 0

\* A hybrid search has returned a memory found by both searches before one
\* found by the semantic search alone, and has left out one found by the
\* keyword search alone.
C20_Witness ==
  /\ ret.op = "hybrid_search"
  /\ Len(ret.value) = 2
  /\ ret.value[1][3] = "both"
  /\ ret.value[2][3] = "semantic"
  /\ ret.value[1][2] > ret.value[2][2]
  /\ \E m \in ctx[1].keyword_memories \ FoundBySemantic(ctx[1]) : m \notin ResultIds(ret.value)

\* C21, as stated: the same hybrid_search call made twice on an unchanged
\* table returns the same memories with the same scores in the same order.
C21_RepeatedHybridSearchSameOrder ==
  (pc[1] = "idle" /\ ctx[1].op = "hybrid_search" /\ ctx[1].calls = 2) =>
    ret.value = ctx[1].first

\* The number of rows of memory_relations that have m as source or as target.
IncidentCount(m) ==
  Copies(relations, {r \in DOMAIN relations : r.src = m \/ r.dst = m})

\* The number of rows at m that are at least as strong as s.
AtLeastAsStrong(m, s) ==
  Copies(relations, {r \in DOMAIN relations : (r.src = m \/ r.dst = m) /\ r.strength >= s})

\* A row between m and other with the strength s exists.
HasRow(m, other, s) ==
  \E r \in DOMAIN relations :
    /\ r.strength = s
    /\ (r.src = m /\ r.dst = other) \/ (r.src = other /\ r.dst = m)

\* C22, as stated in its last part: a relation that the store of a memory has
\* created is returned by every related() call for that memory.
C22_RelatedContainsStoredEdge ==
  ret.op = "related" =>
    \A r \in DOMAIN relations :
      r.src = ctx[ret.p].memory_id =>
        \E k \in 1..Len(ret.value) : ret.value[k] = <<r.dst, r.strength>>

\* C22: related(m, limit) returns one entry per relation among the at most limit
\* strongest relations that have m as source or as target: the memory at the
\* other endpoint, never m itself, with the strength of that relation, in
\* non-increasing strength order, no relation left out being stronger than a
\* returned one; a relation created by the store of m is among the entries
\* whenever at most limit relations of m are at least as strong as it.
C22_RelatedStrongest ==
  ret.op = "related" =>
    LET m == ctx[ret.p].memory_id
        limit == ctx[ret.p].limit
        res == ret.value
    IN /\ ret.outcome = "returned"
       /\ Len(res) = Min(limit, IncidentCount(m))
       /\ \A k \in 1..Len(res) :
            /\ res[k][1] # m
            /\ res[k][1] \in MemoryIds
            /\ HasRow(m, res[k][1], res[k][2])
       /\ \A k, l \in 1..Len(res) : k # l => res[k][1] # res[l][1]
       /\ \A k, l \in 1..Len(res) : k < l => res[k][2] >= res[l][2]
       /\ \A r \in DOMAIN relations :
            (r.src = m \/ r.dst = m) /\ (\A k \in 1..Len(res) : res[k][1] \notin {r.src, r.dst})
              => \A k \in 1..Len(res) : r.strength <= res[k][2]
       /\ \A r \in DOMAIN relations :
            (r.src = m /\ AtLeastAsStrong(m, r.strength) <= limit)
              => \E k \in 1..Len(res) : res[k] = <<r.dst, r.strength>>

\* related(3, limit = 1) has returned the stronger of the two relations that
\* the store of memory 3 created, and not the weaker one.
C22_Witness ==
  /\ ret.op = "related"
  /\ ctx[ret.p].memory_id = 3
  /\ ctx[ret.p].limit = 1
  /\ \E r1, r2 \in DOMAIN relations :
       /\ r1.src = 3 /\ r2.src = 3
       /\ r1.strength > r2.strength
       /\ ret.value = <<<<r1.dst, r1.strength>>>>

\* The memories of the owner of a cluster call that have an embedding.
OwnEmbedded(a) ==
  {m \in MemoryIds : memories[m].owner = a.user_id /\ memories[m].emb # None}

\* The ids a list of members holds.
Members(list) == {list[i] : i \in 1..Len(list)}

RECURSIVE EntityValues(_)
EntityValues(members) ==
  IF members = << >> THEN << >>
  ELSE LET meta_data == memories[Head(members)].meta_data
           entities == IF meta_data.null \/ "entities" \notin meta_data.keys
                       THEN << >> ELSE meta_data.entities
           valued == SelectSeq(entities, LAMBDA e : "value" \in e.keys)
       IN [i \in 1..Len(valued) |-> valued[i].value] \o EntityValues(Tail(members))

\* The items of a list that no other item outnumbers.
MostFrequent(items) ==
  {items[i] : i \in {k \in 1..Len(items) :
      \A j \in 1..Len(items) :
        Cardinality({l \in 1..Len(items) : items[l] = items[j]})
          <= Cardinality({l \in 1..Len(items) : items[l] = items[k]})}}

\* The names the naming rule allows for a cluster with the given members.
AllowedNames(members) ==
  LET values == EntityValues(Prefix(members, 5))
      categories == [i \in 1..Len(members) |-> memories[members[i]].memory_type]
  IN IF values # << >> THEN {v \o " Memories" : v \in MostFrequent(values)}
     ELSE IF categories # << >>
          THEN {(IF c = "episodic" THEN "Episodic" ELSE "Semantic") \o " Memories" :
                  c \in MostFrequent(categories)}
          ELSE {"Memory Cluster"}

\* C24, as stated: whatever the shape of the members' metadata, cluster()
\* completes, and every cluster is named by the most frequent entity value
\* among its first 5 members, else by the most frequent category among its
\* members, else "Memory Cluster".
C24_NamingNeverFails ==
  ret.op = "cluster" =>
    /\ ret.outcome = "returned"
    /\ \A name \in DOMAIN ret.value : name \in AllowedNames(ret.value[name])

\* The places (cluster name, position) at which a returned dict holds m.
PlacesOf(clusters, m) ==
  {pl \in (DOMAIN clusters) \X MemoryIds :
     pl[2] <= Len(clusters[pl[1]]) /\ clusters[pl[1]][pl[2]] = m}

\* C27, as stated: the clusters that cluster(owner, n_clusters) returns hold
\* every embedded memory of the owner exactly once, and nothing else.
C27_ClustersPartition ==
  (ret.op = "cluster" /\ ret.outcome = "returned") =>
    /\ \A m \in OwnEmbedded(ctx[1].args) : Cardinality(PlacesOf(ret.value, m)) = 1
    /\ \A name \in DOMAIN ret.value : Members(ret.value[name]) \subseteq OwnEmbedded(ctx[1].args)

\* The memories whose stored embedding has another dimension than the
\* vectors of the encoder.
Malformed == {m \in MemoryIds : Truthy(memories[m].emb) /\ Len(memories[m].emb) # Len(ZeroVector)}

\* C25, as stated: a stored embedding of another dimension never makes the
\* similarity computation of a search or of a store raise; the search returns
\* no such memory and relationship maintenance creates no relation with one.
C25_MalformedVectorExcluded ==
  /\ ret.op \in {"semantic_search", "store"} =>
       ~(ret.outcome = "raised" /\ ret.err = "ValueError")
  /\ ret.op = "semantic_search" /\ ret.outcome = "returned"
       => \A k \in 1..Len(ret.value) : ret.value[k][1] \notin Malformed
  /\ \A r \in DOMAIN relations : r.src \notin Malformed /\ r.dst \notin Malformed

\* The result of a search or of a clustering is empty.
EmptyResult == ret.value = << >>

KeywordMatches(a) ==
  {m \in OwnedMatching(a) :
     Count(Lower(Letters(memories[m].content)), Lower(Letters(a.query))) > 0}

Busy(m) ==
  \E p \in Procs :
    /\ pc[p] # "idle"
    /\ ctx[p].mem = m \/ \E i \in 1..Len(ctx[p].batch) : ctx[p].batch[i] = m

\* C28: under any interleaving of the calls, two memories of one owner whose
\* embeddings score at least the threshold are joined by at least one relation
\* once the calls that stored them have returned (each has fewer than TopK
\* other candidates): each memory is committed before its own scan, so the
\* scan of the later one sees the earlier one.
C28_ConcurrentStoresLeaveAnEdge ==
  \A a, b \in MemoryIds :
    (/\ a # b
     /\ SameOwner(a, b)
     /\ Emb(a) # None /\ Emb(b) # None
     /\ Score(a, b) >= SimilarityThreshold
     /\ ~Busy(a) /\ ~Busy(b)
     /\ Cardinality(Embedded(memories[a].owner)) <= TopK)
      => Edges(a, b) >= 1

\* Two store calls that overlapped have both returned: each scan saw the
\* memory of the other call, and each pass committed a relation for the pair.
C28_Witness ==
  /\ AllIdle
  /\ \E a, b \in MemoryIds :
       /\ a # b
       /\ Score(a, b) >= SimilarityThreshold
       /\ \E r1, r2 \in DOMAIN relations :
            r1.src = a /\ r1.dst = b /\ r2.src = b /\ r2.dst = a

\* The memories of owner 1 without an embedding after the step.
PendingAfter == {m \in DOMAIN memories' : memories'[m].owner = 1 /\ memories'[m].emb = None}

\* A call takes its batch from the pending memories, so from no memory an
\* earlier call gave an embedding to; the encoding step takes exactly the
\* batch out of the pending memories and no other step changes them; the call
\* returns the size of its batch; with nothing pending a call returns 0 and
\* changes nothing.
BacklogProgress ==
  /\ (pc[1] = "idle" /\ pc'[1] = "embed") =>
       /\ BatchSet(ctx'[1]) # {}
       /\ BatchSet(ctx'[1]) \subseteq Unembedded(1)
       /\ BatchSet(ctx'[1]) \cap Embedded(1) = {}
  /\ IF pc[1] = "embed"
     THEN /\ BatchSet(ctx[1]) \subseteq Unembedded(1)
          /\ PendingAfter = Unembedded(1) \ BatchSet(ctx[1])
          /\ Cardinality(PendingAfter) =
               Cardinality(Unembedded(1)) - Len(ctx[1].batch)
     ELSE PendingAfter = Unembedded(1)
  /\ BackfillReturns(1) =>
       /\ ret'.value = Len(ctx[1].batch)
       /\ ret'.value > 0
       /\ BatchSet(ctx[1]) \cap PendingAfter = {}
  /\ (pc[1] = "idle" /\ Unembedded(1) = {}) =>
       /\ ret' = Returned(1, "backfill", 0)
       /\ UNCHANGED <<memories, relations, pc>>

\* C29: with batch_size >= 1, a working encoder and no memory arriving,
\* repeated update_embeddings_batch calls for an owner reach a state from
\* which no memory of the owner is without an embedding: every call that
\* returns n > 0 lowers the number of pending memories by exactly n, no call
\* processes a memory an earlier call processed, and with nothing pending
\* every call returns 0.
C29_BackfillTerminates ==
  /\ [][BacklogProgress]_vars
  /\ <>[](Unembedded(1) = {})

\* A backlog of MaxRows memories, more than one batch, has been processed and
\* the next call has returned 0.
C29_Witness ==
  /\ ret = Returned(1, "backfill", 0)
  /\ Unembedded(1) = {}
  /\ Cardinality(Embedded(1)) = MaxRows
  /\ MaxRows > MaxBatch

\* C30: the pass run a second time for the memory a store call has just
\* returned, on the unchanged corpus, adds no relation, whatever the order in
\* which its corpus query returns the rows.
C30_SecondPassAddsNothing ==
  \A m \in MemoryIds :
    ret = Returned(1, "store", m) =>
      \A order \in ScanOrders(OtherMemories(memories[m].owner, m)) :
        SecondPass(m, order) = << >>

====
